---- MODULE Spec2Model ----
(***************************************************************************)
(* A model of the to-do list client: the phase scheduling of objectives    *)
(* (lib/objectiveService.ts), the hierarchy assembly and the todos page    *)
(* (pages/TodosPage.tsx) and the item components (components/TodoItem.tsx, *)
(* components/GoalItem.tsx).                                               *)
(***************************************************************************)
EXTENDS Integers, Sequences, FiniteSets, TLC

VARIABLES
    \* ---- objectiveService: one call of a pure function on one objective
    objective,       \* the Objective handed to the function
    targetDate,      \* the Date handed to getActiveSubtasks, in ticks
    activeSubtasks,  \* what getActiveSubtasks returned
    totalDuration,   \* what calculateObjectiveDuration returned
    objPc,           \* "input" | "active" | "duration"
    \* ---- organizeTodos: one call on one flat list
    flatTodos,       \* the list handed to organizeTodos
    todoMap,         \* the nodes organizeTodos made: id -> [todo, subtasks (ids)]
    rootTodos,       \* what organizeTodos returned: the ids of the root nodes
    orgPc,           \* "input" | "done"
    \* ---- one TodoItem or GoalItem with its props
    item,            \* the props: kind, the todo or goal with its children, disabled
    itemView,        \* what the render computed from the props
    itemOperating,   \* GoalItem's own isOperating
    itemCalls,       \* the onToggle calls the item has made
    itemPc,          \* "props" | "rendered" | "toggled" | "settled"
    \* ---- the todos page, the remote store behind it and localStorage
    store,           \* the rows of public.todos: id -> row
    nextId,          \* the id the store gives the next inserted row
    requests,        \* the remote calls in flight: sent, or answered and not yet handled
    today,           \* todayInLimaISO(), a day number
    selectedDate,    \* useState selectedDate
    allTodos,        \* useState allTodos: the flat list
    todos,           \* useState todos: organizeTodos of the flat list
    loading,         \* useState loading
    error,           \* useState error: a message is shown
    isOperating,     \* useState isOperating
    streak,          \* useState streak
    streakData,      \* localStorage todo_app_streak, parsed
    subtaskInput,    \* the TodoItems showing their subtask input, a title typed
    addingSubtask,   \* the TodoItems whose isAddingSubtask is set
    editing,         \* the TodoItems whose title editor is open, another title typed
    saving,          \* the TodoItems whose isSaving is set
    nextTemplate,    \* the series identifier crypto.randomUUID() gives next
    timeZone,        \* the time zone of the browser
    \* ---- the daily page of active objective subtasks (the other TodosPage); it has
    \* the page state above (today .. streakData, requests) and
    completions,     \* the rows of objective_subtask_completions
    subtaskItems,    \* useState subtasks: the ActiveSubtaskItems shown
    \* ---- groupRecurringSeries: calls of a pure function on one list
    seriesTodos,     \* the todos of the range handed to groupRecurringSeries
    seriesGroups,    \* what groupRecurringSeries returned last
    seriesRuns,      \* how often it has run on the list
    \* ---- context/AuthContext: what useAuth() gives the pages
    user,            \* TRUE: a user is signed in; FALSE: user is null
    \* ---- streakService called on its own
    streakCall       \* the last call made: <<>> or <<[op, isAllCompleted, result]>>

objVars == <<objective, targetDate, activeSubtasks, totalDuration, objPc>>

orgVars == <<flatTodos, todoMap, rootTodos, orgPc>>

itemVars == <<item, itemView, itemOperating, itemCalls, itemPc>>

pageVars == <<store, nextId, requests, today, selectedDate, allTodos, todos, loading,
              error, isOperating, streak, streakData, subtaskInput, addingSubtask,
              editing, saving, nextTemplate, timeZone>>

dailyVars == <<completions, subtaskItems>>

\* the part of the page state only the todos page has
todoVars == <<store, nextId, allTodos, todos, subtaskInput, addingSubtask,
              editing, saving, nextTemplate, timeZone>>

\* the title editors of the items
editVars == <<editing, saving>>

\* what the page is given from outside
envVars == <<nextTemplate, timeZone>>

seriesVars == <<seriesTodos, seriesGroups, seriesRuns>>

sessionVars == <<user>>

streakVars == <<streakCall>>

vars == <<objVars, orgVars, itemVars, pageVars, dailyVars, seriesVars, sessionVars,
          streakVars>>

Null == "null"

(***************************************************************************)
(* Generic helpers.                                                        *)
(***************************************************************************)
Range(s) == {s[i] : i \in DOMAIN s}

RECURSIVE SumSeq(_)
SumSeq(s) == IF s = <<>> THEN 0 ELSE Head(s) + SumSeq(Tail(s))

RECURSIVE SumOver(_, _)
\* the sum of f[x] over the finite set S
SumOver(S, f) ==
    IF S = {} THEN 0
    ELSE LET x == CHOOSE y \in S : TRUE IN f[x] + SumOver(S \ {x}, f)

MaxOfSet(S) == CHOOSE m \in S : \A x \in S : x <= m

(***************************************************************************)
(* Bounds of the objective inputs.                                         *)
(***************************************************************************)
MaxSubtasks == 3      \* subtasks of one objective, over all its tasks
MaxDay == 8           \* target dates reach this many days past the start
StartDate == 1        \* the day number of the objective's start_date
TaskIds == <<"A", "B">>
PhaseOrders == {2, 7, 10}
Durations == {3, 4, 5}

\* 1000 * 60 * 60 * 24 ms, in ticks of half a day
MsPerDay == 2

(***************************************************************************)
(* lib/objectiveService.ts                                                 *)
(***************************************************************************)
\* new Date("YYYY-MM-DD").getTime(): midnight UTC of the day
DateGetTime(day) == day * MsPerDay

\* Math.floor((targetDate.getTime() - startDate.getTime()) / MsPerDay)
DaysElapsed(start_date, target) == (target - DateGetTime(start_date)) \div MsPerDay

\* Math.max(...subtasksInPhase.map(s => s.duration_days)), the list not empty
PhaseLengthSum(subtasksInPhase) ==
    SumSeq([i \in DOMAIN subtasksInPhase |-> subtasksInPhase[i].duration_days])

PhaseLength(subtasksInPhase) ==
    MaxOfSet({subtasksInPhase[i].duration_days : i \in DOMAIN subtasksInPhase})

RECURSIVE PhaseKeys(_)
\* the keys of the Map phaseGroups, in insertion order
PhaseKeys(subtasks) ==
    IF subtasks = <<>> THEN <<>>
    ELSE LET n == Len(subtasks)
             before == PhaseKeys(SubSeq(subtasks, 1, n - 1))
             k == subtasks[n].phase_order
         IN IF k \in Range(before) THEN before ELSE Append(before, k)

\* phaseGroups.get(phase): the subtasks of the phase, in input order
PhaseGroup(subtasks, phase) ==
    LET InPhase(s) == s.phase_order = phase IN SelectSeq(subtasks, InPhase)

RECURSIVE SortByKey(_, _)
\* the elements of S as a sequence, ascending in key[x]
SortByKey(S, key) ==
    IF S = {} THEN <<>>
    ELSE LET m == CHOOSE x \in S : \A y \in S : key[x] <= key[y]
         IN <<m>> \o SortByKey(S \ {m}, key)

\* sort() without a comparator orders numbers as strings ("10" < "2"); for 0 <= n < 100
SortPhasesLex(keys) ==
    SortByKey(Range(keys),
              [n \in Range(keys) |-> IF n < 10 THEN n * 100 ELSE (n \div 10) * 100 + 1 + (n % 10)])

\* Array.from(phaseGroups.keys()).sort((a, b) => a - b)
SortPhases(keys) == SortByKey(Range(keys), [n \in Range(keys) |-> n])

StillRunningAlways(subtask, dayInPhase) == TRUE

\* dayInPhase < subtask.duration_days
StillRunning(subtask, dayInPhase) == dayInPhase < subtask.duration_days

RECURSIVE WalkPhases(_, _, _, _, _)
\* the loop over sortedPhases, from its i-th phase on, with the running phaseStartDay
WalkPhases(subtasks, sortedPhases, i, phaseStartDay, daysElapsed) ==
    IF i > Len(sortedPhases) THEN <<>>
    ELSE LET subtasksInPhase == PhaseGroup(subtasks, sortedPhases[i])
             maxDuration == PhaseLength(subtasksInPhase)
             phaseEndDay == phaseStartDay + maxDuration
             dayInPhase == daysElapsed - phaseStartDay
             Running(s) == StillRunning(s, dayInPhase)
             running == SelectSeq(subtasksInPhase, Running)
             \* activeSubtasks.push({ ...subtask, is_active: true })
             pushed == IF daysElapsed >= phaseStartDay /\ daysElapsed < phaseEndDay
                       THEN [k \in DOMAIN running |->
                               [id |-> running[k].id,
                                task_id |-> running[k].task_id,
                                phase_order |-> running[k].phase_order,
                                duration_days |-> running[k].duration_days,
                                is_active |-> TRUE]]
                       ELSE <<>>
         IN pushed \o WalkPhases(subtasks, sortedPhases, i + 1, phaseEndDay, daysElapsed)

\* the body of the loop over objective.tasks for one task
ActiveOfTask(task, daysElapsed) ==
    IF Len(task.subtasks) = 0 THEN <<>>
    ELSE WalkPhases(task.subtasks, SortPhases(PhaseKeys(task.subtasks)), 1, 0, daysElapsed)

RECURSIVE ActiveOfTasks(_, _)
ActiveOfTasks(tasks, daysElapsed) ==
    IF tasks = <<>> THEN <<>>
    ELSE ActiveOfTask(Head(tasks), daysElapsed) \o ActiveOfTasks(Tail(tasks), daysElapsed)

getActiveSubtasks(obj, target) ==
    LET daysElapsed == DaysElapsed(obj.start_date, target)
    IN IF daysElapsed < 0 THEN <<>> ELSE ActiveOfTasks(obj.tasks, daysElapsed)

RECURSIVE SumPhases(_, _, _)
\* phaseGroups.forEach(...): taskDuration += maxDuration, in insertion order
SumPhases(subtasks, keys, i) ==
    IF i > Len(keys) THEN 0
    ELSE PhaseLength(PhaseGroup(subtasks, keys[i])) + SumPhases(subtasks, keys, i + 1)

\* only the phase met first is counted
TaskDurationFirstPhase(task) ==
    PhaseLength(PhaseGroup(task.subtasks, PhaseKeys(task.subtasks)[1]))

TaskDuration(task) == SumPhases(task.subtasks, PhaseKeys(task.subtasks), 1)

LongestChainSum(total, taskDuration) == total + taskDuration

\* if (taskDuration > totalDuration) totalDuration = taskDuration
LongestChain(total, taskDuration) ==
    IF taskDuration > total THEN taskDuration ELSE total

RECURSIVE DurationOfTasks(_, _, _)
DurationOfTasks(tasks, i, total) ==
    IF i > Len(tasks) THEN total
    ELSE IF Len(tasks[i].subtasks) = 0 THEN DurationOfTasks(tasks, i + 1, total)
    ELSE DurationOfTasks(tasks, i + 1, LongestChain(total, TaskDuration(tasks[i])))

calculateObjectiveDuration(obj) == DurationOfTasks(obj.tasks, 1, 0)

(***************************************************************************)
(* The objectives the functions are applied to: up to Len(TaskIds) tasks,  *)
(* the subtask rows of the objective_subtasks table spread over them as    *)
(* fetchObjectivesWithDetails groups them.                                 *)
(***************************************************************************)
\* the hierarchy fetchObjectivesWithDetails builds from the rows: row j has the phase
\* and duration detail[j] and belongs to the task owner[j]
MakeObjective(n, detail, owner) ==
    LET subtaskOf == [j \in DOMAIN detail |->
                        [id |-> j, task_id |-> TaskIds[owner[j]],
                         phase_order |-> detail[j][1],
                         duration_days |-> detail[j][2]]]
        Of(t) == LET Mine(s) == s.task_id = TaskIds[t] IN SelectSeq(subtaskOf, Mine)
    IN [start_date |-> StartDate,
        tasks |-> [t \in 1..n |-> [id |-> TaskIds[t], subtasks |-> Of(t)]]]

TargetDates ==
    {DateGetTime(d) + h : d \in (StartDate - 1)..(StartDate + MaxDay), h \in 0..(MsPerDay - 1)}

GetActiveSubtasks ==
    /\ objPc = "input"
    /\ \E target \in TargetDates :
          /\ targetDate' = target
          /\ activeSubtasks' = getActiveSubtasks(objective, target)
    /\ objPc' = "active"
    /\ UNCHANGED <<objective, totalDuration, orgVars, itemVars, pageVars, dailyVars, seriesVars,
                   sessionVars, streakVars>>

CalculateObjectiveDuration ==
    /\ objPc = "input"
    /\ totalDuration' = calculateObjectiveDuration(objective)
    /\ objPc' = "duration"
    /\ UNCHANGED <<objective, targetDate, activeSubtasks, orgVars, itemVars, pageVars, dailyVars, seriesVars,
                   sessionVars, streakVars>>

(***************************************************************************)
(* pages/TodosPage.tsx: organizeTodos.  The nodes are objects shared by    *)
(* reference between todoMap, rootTodos and the subtasks arrays, so a node *)
(* is named by its id and a subtasks array holds ids.                      *)
(***************************************************************************)
MaxTodos == 3         \* todos in one flat list

\* parent_id: null, among ids that are positive numbers
NullId == 0

\* first pass: todoMap.set(todo.id, { ...todo, subtasks: [] })
FirstPass(flat) ==
    [id \in {flat[i].id : i \in DOMAIN flat} |->
        [todo |-> flat[CHOOSE i \in DOMAIN flat :
                         flat[i].id = id /\ \A j \in DOMAIN flat : flat[j].id = id => j <= i],
         subtasks |-> <<>>]]

RootPushFront(roots, id) == <<id>> \o roots

\* rootTodos.push(todoWithSubtasks)
RootPush(roots, id) == Append(roots, id)

\* an orphan is kept as a root
PlaceTodoOrphanRoot(acc, todo) ==
    IF todo.parent_id # NullId
    THEN IF todo.parent_id \in DOMAIN acc.todoMap
         THEN [acc EXCEPT !.todoMap[todo.parent_id].subtasks = Append(@, todo.id)]
         ELSE [acc EXCEPT !.rootTodos = RootPush(@, todo.id)]
    ELSE [acc EXCEPT !.rootTodos = RootPush(@, todo.id)]

\* the else is lost: every todo is pushed as a root
PlaceTodoNoElse(acc, todo) ==
    LET attached == IF todo.parent_id # NullId /\ todo.parent_id \in DOMAIN acc.todoMap
                    THEN [acc EXCEPT !.todoMap[todo.parent_id].subtasks = Append(@, todo.id)]
                    ELSE acc
    IN [attached EXCEPT !.rootTodos = RootPush(@, todo.id)]

\* second pass, for one todo: attach it to its parent's node, or push it as a root
PlaceTodo(acc, todo) ==
    IF todo.parent_id # NullId
    THEN IF todo.parent_id \in DOMAIN acc.todoMap
         THEN [acc EXCEPT !.todoMap[todo.parent_id].subtasks = Append(@, todo.id)]
         ELSE acc
    ELSE [acc EXCEPT !.rootTodos = RootPush(@, todo.id)]

RECURSIVE SecondPass(_, _, _)
SecondPass(flat, i, acc) ==
    IF i > Len(flat) THEN acc
    ELSE SecondPass(flat, i + 1, PlaceTodo(acc, flat[i]))

\* the forest: rootTodos, and the nodes they refer to
organizeTodos(flat) ==
    SecondPass(flat, 1, [todoMap |-> FirstPass(flat), rootTodos |-> <<>>])

\* the rows of one user and one date, ids 1..MaxTodos unique (primary key); a parent_id
\* is null, the id of a row of the list, or the id of a row outside it
FlatTodoLists ==
    UNION {{[i \in 1..n |-> [id |-> ids[i], parent_id |-> parents[i]]] :
              ids \in {f \in [1..n -> 1..MaxTodos] : \A a, b \in 1..n : a # b => f[a] # f[b]},
              parents \in [1..n -> {NullId} \cup 1..(MaxTodos + 1)]} : n \in 0..MaxTodos}

OrganizeTodos ==
    /\ orgPc = "input"
    /\ todoMap' = organizeTodos(flatTodos).todoMap
    /\ rootTodos' = organizeTodos(flatTodos).rootTodos
    /\ orgPc' = "done"
    /\ UNCHANGED <<flatTodos, objVars, itemVars, pageVars, dailyVars, seriesVars,
                   sessionVars, streakVars>>

(***************************************************************************)
(* components/TodoItem.tsx and GoalItem: what one item derives from its    *)
(* props, and its toggle handler.  it.listed says whether the todo or goal *)
(* carries a children array at all (subtasks?: / subgoals?: are optional). *)
(***************************************************************************)
MaxChildren == 3      \* children of one item

\* todo.subtasks && todo.subtasks.length > 0
hasSubtasks(it) == it.listed /\ Len(it.children) > 0

\* todo.subtasks?.filter(s => s.done).length || 0
completedSubtasks(it) ==
    IF it.listed THEN Cardinality({i \in DOMAIN it.children : it.children[i]}) ELSE 0

\* todo.subtasks?.length || 0
subtaskCount(it) == IF it.listed THEN Len(it.children) ELSE 0

\* every() over the children, also when there are none
TodoEffectiveDoneVacuous(it) == completedSubtasks(it) = subtaskCount(it)

\* isAutoCompleted = hasSubtasks && completedSubtasks === subtaskCount;
\* effectiveDone = hasSubtasks ? isAutoCompleted : todo.done
TodoEffectiveDone(it) ==
    IF hasSubtasks(it)
    THEN hasSubtasks(it) /\ completedSubtasks(it) = subtaskCount(it)
    ELSE it.done

\* goal.subgoals && goal.subgoals.length > 0
hasSubgoals(it) == it.listed /\ Len(it.children) > 0

\* allSubgoalsDone = hasSubgoals && subgoalsCompleted === totalSubgoals;
\* effectiveDone = hasSubgoals ? allSubgoalsDone : goal.done
GoalEffectiveDone(it) ==
    LET subgoalsCompleted == IF hasSubgoals(it)
                             THEN Cardinality({i \in DOMAIN it.children : it.children[i]})
                             ELSE 0
        totalSubgoals == IF hasSubgoals(it) THEN Len(it.children) ELSE 0
    IN IF hasSubgoals(it)
       THEN hasSubgoals(it) /\ subgoalsCompleted = totalSubgoals
       ELSE it.done

\* the render: effectiveDone, and whether the checkbox button is shown at all
ItemRender ==
    /\ itemPc = "props"
    /\ itemView' =
         IF item.kind = "todo"
         THEN [effectiveDone |-> TodoEffectiveDone(item), checkbox |-> ~hasSubtasks(item)]
         ELSE [effectiveDone |-> GoalEffectiveDone(item), checkbox |-> ~hasSubgoals(item)]
    /\ itemPc' = "rendered"
    /\ UNCHANGED <<item, itemOperating, itemCalls, objVars, orgVars, pageVars, dailyVars, seriesVars,
                   sessionVars, streakVars>>

\* handleToggle of the item, called with the props of the last render
ItemHandleToggle ==
    /\ itemPc = "rendered"
    /\ IF item.kind = "todo"
       THEN /\ itemCalls' = IF hasSubtasks(item) THEN itemCalls
                             ELSE Append(itemCalls, [done |-> ~item.done])
            /\ UNCHANGED itemOperating
       ELSE IF hasSubgoals(item) \/ item.disabled \/ itemOperating
            THEN UNCHANGED <<itemCalls, itemOperating>>
            ELSE /\ itemOperating' = TRUE
                 /\ itemCalls' = Append(itemCalls, [done |-> ~item.done])
    /\ itemPc' = "toggled"
    /\ UNCHANGED <<item, itemView, objVars, orgVars, pageVars, dailyVars, seriesVars,
                   sessionVars, streakVars>>

\* the awaited onToggle settles: GoalItem's finally
ItemToggleSettled ==
    /\ itemPc = "toggled"
    /\ itemOperating' = FALSE
    /\ itemPc' = "settled"
    /\ UNCHANGED <<item, itemView, itemCalls, objVars, orgVars, pageVars, dailyVars, seriesVars,
                   sessionVars, streakVars>>

(***************************************************************************)
(* lib/streakService.ts.  localStorage holds no entry (<<>>) or one parsed  *)
(* StreakData record (<<data>>); dates are day numbers.                     *)
(***************************************************************************)
\* lastCompletedDate: null, among dates that are positive day numbers
NullDate == 0

\* getStreakData
getStreakData(stored) ==
    IF Len(stored) > 0 THEN stored[1]
    ELSE [currentStreak |-> 0, lastCompletedDate |-> NullDate]

\* Math.ceil(Math.abs(currentDate.getTime() - lastDate.getTime()) / (1000 * 60 * 60 * 24))
DiffDays(lastDate, currentDate) ==
    LET diff == DateGetTime(currentDate) - DateGetTime(lastDate)
        diffTime == IF diff < 0 THEN -diff ELSE diff
    IN (diffTime + MsPerDay - 1) \div MsPerDay

\* the streak written whatever isAllCompleted is
updateStreakAlways(stored, day, isAllCompleted) ==
    LET data == getStreakData(stored)
        diffDays == DiffDays(data.lastCompletedDate, day)
        newStreak == IF data.lastCompletedDate # NullDate /\ diffDays = 1
                     THEN data.currentStreak + 1
                     ELSE 1
    IN IF data.lastCompletedDate = day
       THEN [storage |-> stored, result |-> data.currentStreak]
       ELSE [storage |-> <<[currentStreak |-> newStreak, lastCompletedDate |-> day]>>,
             result |-> newStreak]

\* the streak goes on after days that were missed
updateStreakNoReset(stored, day, isAllCompleted) ==
    LET data == getStreakData(stored)
        newStreak == IF data.lastCompletedDate # NullDate
                     THEN data.currentStreak + 1
                     ELSE 1
    IN IF ~isAllCompleted THEN [storage |-> stored, result |-> data.currentStreak]
       ELSE IF data.lastCompletedDate = day
       THEN [storage |-> stored, result |-> data.currentStreak]
       ELSE [storage |-> <<[currentStreak |-> newStreak, lastCompletedDate |-> day]>>,
             result |-> newStreak]

\* updateStreak(isAllCompleted) on the day `day`: what localStorage holds afterwards
\* and the number returned
updateStreak(stored, day, isAllCompleted) ==
    LET data == getStreakData(stored)
        diffDays == DiffDays(data.lastCompletedDate, day)
        newStreak == IF data.lastCompletedDate # NullDate
                     THEN IF diffDays = 1 THEN data.currentStreak + 1
                          ELSE IF diffDays = 0 THEN data.currentStreak
                          ELSE 1
                     ELSE 1
    IN IF ~isAllCompleted THEN [storage |-> stored, result |-> data.currentStreak]
       ELSE IF data.lastCompletedDate = day
       THEN [storage |-> stored, result |-> data.currentStreak]
       ELSE [storage |-> <<[currentStreak |-> newStreak, lastCompletedDate |-> day]>>,
             result |-> newStreak]

\* a broken streak reported as 0 and left in localStorage
validateStreakNoWrite(stored, day) ==
    LET data == getStreakData(stored)
    IN IF data.lastCompletedDate = NullDate THEN [storage |-> stored, result |-> 0]
       ELSE IF DiffDays(data.lastCompletedDate, day) > 1
       THEN [storage |-> stored, result |-> 0]
       ELSE [storage |-> stored, result |-> data.currentStreak]

\* the streak set to 0 whenever a date is stored
validateStreakAlwaysResets(stored, day) ==
    LET data == getStreakData(stored)
    IN IF data.lastCompletedDate = NullDate THEN [storage |-> stored, result |-> 0]
       ELSE [storage |-> <<[currentStreak |-> 0,
                            lastCompletedDate |-> data.lastCompletedDate]>>,
             result |-> 0]

\* validateStreak on the day `day`
validateStreak(stored, day) ==
    LET data == getStreakData(stored)
    IN IF data.lastCompletedDate = NullDate THEN [storage |-> stored, result |-> 0]
       ELSE IF DiffDays(data.lastCompletedDate, day) > 1
       THEN [storage |-> <<[currentStreak |-> 0,
                            lastCompletedDate |-> data.lastCompletedDate]>>,
             result |-> 0]
       ELSE [storage |-> stored, result |-> data.currentStreak]

(***************************************************************************)
(* supabase/schema.sql: the todos table of one user.  A row keeps the       *)
(* columns the page reads or writes (types/todo.ts).  Ids are given in     *)
(* insertion order, which is also the created_at order.                     *)
(***************************************************************************)
MaxRows == 2          \* rows ever inserted
MaxRepeatDays == 2    \* repeatDays of a new task
FirstDay == 3         \* the day the page is opened on
MaxInFlight == 2      \* remote calls on their way at once
MaxAdds == 2          \* submits of the task form

\* the columns the client sends for a row, and the defaults of the others: no id
\* yet, done boolean DEFAULT false
TodoInsert(title, date, parent, category, repeatDays, repeatStart, template) ==
    [id |-> NullId, parent_id |-> parent, done |-> FALSE, task_date |-> date,
     title |-> title, category |-> category, repeat_days |-> repeatDays,
     repeat_start_date |-> repeatStart, template_id |-> template]

\* the rows as INSERT makes them: ids from `id` on, in the order sent
NewRows(id, columns) ==
    [i \in DOMAIN columns |-> [columns[i] EXCEPT !.id = id + i - 1]]

RECURSIVE RowsNewestFirst(_, _, _)
\* select * ... eq('task_date', date) order by created_at descending, from row `id` down
RowsNewestFirst(st, date, id) ==
    IF id = 0 THEN <<>>
    ELSE (IF id \in DOMAIN st /\ st[id].task_date = date THEN <<st[id]>> ELSE <<>>)
         \o RowsNewestFirst(st, date, id - 1)

\* only the first row of the statement is stored
InsertRowsFirstOnly(st, id, columns) ==
    IF columns = <<>> THEN st ELSE st @@ (id :> NewRows(id, columns)[1])

\* insert(rows): one INSERT statement, all its rows or none
InsertRows(st, id, columns) ==
    st @@ [k \in id..(id + Len(columns) - 1) |-> NewRows(id, columns)[k - id + 1]]

RECURSIVE CascadeFrom(_, _)
\* parent_id REFERENCES todos(id) ON DELETE CASCADE: the rows that go with `ids`
CascadeFrom(st, ids) ==
    LET more == {c \in DOMAIN st : st[c].parent_id \in ids}
    IN IF more \subseteq ids THEN ids ELSE CascadeFrom(st, ids \cup more)

\* delete().eq('id', id)
DeleteRow(st, id) ==
    [c \in DOMAIN st \ CascadeFrom(st, {id}) |-> st[c]]

\* update({ done }).eq('id', id): no row matched is no error
UpdateDone(st, id, done) ==
    IF id \in DOMAIN st THEN [st EXCEPT ![id].done = done] ELSE st

(***************************************************************************)
(* pages/TodosPage.tsx: the page.  A remote call is a request in `requests`,*)
(* "sent" until the store has executed it, then "ok" or "error" until the   *)
(* handler that awaits it runs its continuation.                            *)
(***************************************************************************)
\* Date keeps an instant in milliseconds; an hour is the unit here
HoursPerDay == 24

\* the offset of local time from UTC at the instant `utc`: the zone's standard offset,
\* one hour more from the instant dstFrom on when the zone has a daylight-saving change
UtcOffset(zone, utc) ==
    IF zone.dst /\ utc >= zone.dstFrom THEN zone.standard + 1 ELSE zone.standard

\* new Date("YYYY-MM-DD"): midnight UTC of the day
DateParse(day) == day * HoursPerDay

\* the instant of the local date and time `local`
FromLocal(zone, local) ==
    IF zone.dst /\ local - (zone.standard + 1) >= zone.dstFrom
    THEN local - (zone.standard + 1)
    ELSE local - zone.standard

\* taskDate.setDate(taskDate.getDate() + i): the local day moves, the local time stays
SetDatePlus(zone, utc, i) ==
    LET local == utc + UtcOffset(zone, utc)
        getDate == local \div HoursPerDay
    IN FromLocal(zone, (getDate + i) * HoursPerDay + (local % HoursPerDay))

\* taskDate.toISOString().split('T')[0]: the UTC day of the instant
IsoDate(utc) == utc \div HoursPerDay

\* dateStr of the loop's round i
SeriesDate(zone, todayDate, i) == IsoDate(SetDatePlus(zone, DateParse(todayDate), i))

\* tasksToCreate of handleAddTodo
tasksToCreate(zone, title, category, repeatDays, todayDate, templateId) ==
    LET totalDays == IF repeatDays > 0 THEN repeatDays ELSE 1
    IN [j \in 1..totalDays |->
          TodoInsert(title, SeriesDate(zone, todayDate, j - 1), NullId, category,
                     repeatDays,
                     IF repeatDays > 0 THEN todayDate ELSE NullDate,
                     IF repeatDays > 0 THEN templateId ELSE NullId)]

\* the row handleAddSubtask sends: { title, task_date: todayDate, user_id, parent_id }
SubtaskInsert(title, todayDate, parentId) ==
    TodoInsert(title, todayDate, parentId, Null, 0, NullDate, NullId)

Request(kind, id, done, date, count) ==
    [kind |-> kind, id |-> id, done |-> done, date |-> date, count |-> count,
     status |-> "sent", data |-> <<>>,
     \* isToday of the render whose handler or effect makes the call
     wasToday |-> date = today]

\* isToday = selectedDate === todayDate
isToday == selectedDate = today

\* the dates the date input offers: max={todayDate}
SelectableDates == (today - 1)..today

\* the nodes the list renders: the roots, and recursively their subtasks
RECURSIVE RenderedBelow(_, _, _)
RenderedBelow(forest, ids, fuel) ==
    LET below == UNION {Range(forest.todoMap[id].subtasks) : id \in ids}
    IN IF fuel = 0 \/ below \subseteq ids THEN ids
       ELSE RenderedBelow(forest, ids \cup below, fuel - 1)

RenderedIds ==
    IF loading THEN {}
    ELSE RenderedBelow(todos, Range(todos.rootTodos), Cardinality(DOMAIN todos.todoMap))

\* the props one rendered TodoItem gets: its todo, its subtasks, disabled={isOperating}
TodoItemProps(id) ==
    LET node == todos.todoMap[id]
    IN [kind |-> "todo", done |-> node.todo.done, listed |-> TRUE,
        children |-> [i \in DOMAIN node.subtasks |->
                         todos.todoMap[node.subtasks[i]].todo.done],
        disabled |-> isOperating]

\* another remote call fits the bound
CanSend == Cardinality(requests) < MaxInFlight

\* rows the inserts still on their way will take
PendingRows ==
    LET sent == {r \in requests : r.status = "sent" /\ r.kind \in {"add", "addSubtask"}}
        count == [r \in sent |-> r.count]
    IN SumOver(sent, count)

\* allTodos.every(t => t.done)
allDone(all) == \A i \in DOMAIN all : all[i].done

\* the items the list mounts for a forest: none while the spinner is shown
Mounted(forest, load) ==
    IF load THEN {}
    ELSE RenderedBelow(forest, Range(forest.rootTodos), Cardinality(DOMAIN forest.todoMap))

\* the effect on [allTodos, loading, isToday], run with the values the step sets;
\* `closed` are the items that close their subtask input in the same step, `saved`
\* the items whose title editor closes in the same step
PageEffect(all, load, closed, saved) ==
    IF ~load
    THEN /\ todos' = organizeTodos(all)
         /\ IF isToday /\ Len(all) > 0
            THEN LET updated == updateStreak(streakData, today, allDone(all))
                 IN /\ streak' = updated.result
                    /\ streakData' = updated.storage
            ELSE UNCHANGED <<streak, streakData>>
         \* a TodoItem that is no longer rendered loses its state
         /\ subtaskInput' = (subtaskInput \ closed) \cap Range(organizeTodos(all).rootTodos)
         /\ editing' = (editing \ saved) \cap Mounted(organizeTodos(all), FALSE)
         /\ saving' = (saving \ saved) \cap Mounted(organizeTodos(all), FALSE)
    ELSE /\ subtaskInput' = subtaskInput \ closed
         /\ editing' = editing \ saved
         /\ saving' = saving \ saved
         /\ UNCHANGED <<todos, streak, streakData>>

\* allTodos.filter((t) => t.done).length
completedCount(all) == Cardinality({i \in DOMAIN all : all[i].done})

\* allTodos.length
totalCount(all) == Len(all)

\* the "all tasks completed" message is shown
allCompleted(all, load) ==
    ~load /\ totalCount(all) > 0 /\ completedCount(all) = totalCount(all)

\* a title editor has the focus: a click elsewhere blurs it first, and its onBlur
\* closes it or submits it
EditorOpen == editing \ saving # {}

\* TodoForm submit -> handleAddTodo, up to the insert
HandleAddTodo ==
    /\ isToday /\ ~isOperating /\ ~EditorOpen
    /\ CanSend
    /\ nextTemplate <= MaxAdds
    /\ IF user
       THEN /\ \E repeatDays \in 1..MaxRepeatDays :
                  /\ nextId + PendingRows + repeatDays <= MaxRows + 1
                  /\ requests' = requests \cup
                        {[Request("add", NullId, FALSE, today, repeatDays) EXCEPT
                             !.data = tasksToCreate(timeZone, "a", "work", repeatDays,
                                                    today, nextTemplate)]}
            /\ nextTemplate' = nextTemplate + 1
       ELSE \* if (!user) return, after setIsOperating(true) and before the try
            UNCHANGED <<requests, nextTemplate>>
    /\ isOperating' = TRUE
    /\ error' = FALSE
    /\ UNCHANGED <<store, nextId, today, selectedDate, allTodos, todos, loading, streak,
                   streakData, subtaskInput, addingSubtask, editVars, timeZone,
                   objVars, orgVars, itemVars, dailyVars, seriesVars,
                   sessionVars, streakVars>>

\* the "add subtask" button of a root item, a title typed into the input it shows
ShowSubtaskInput ==
    /\ isToday /\ ~isOperating /\ ~EditorOpen
    /\ \E id \in Range(todos.rootTodos) \cap RenderedIds :
          /\ id \notin subtaskInput
          /\ id \notin saving
          /\ subtaskInput' = subtaskInput \cup {id}
    /\ UNCHANGED <<store, nextId, requests, today, selectedDate, allTodos, todos, loading,
                   error, isOperating, streak, streakData, addingSubtask,
                   editVars, envVars,
                   objVars, orgVars, itemVars, dailyVars, seriesVars,
                   sessionVars, streakVars>>

\* Enter in the subtask input: TodoItem.handleAddSubtask -> handleAddSubtask, up to
\* the insert
HandleAddSubtask ==
    /\ isToday /\ ~EditorOpen
    /\ CanSend
    /\ \E id \in subtaskInput \cap RenderedIds :
          /\ id \notin addingSubtask
          /\ nextId + PendingRows + 1 <= MaxRows + 1
          /\ IF user
             THEN /\ addingSubtask' = addingSubtask \cup {id}
                  /\ requests' = requests \cup
                        {[Request("addSubtask", id, FALSE, today, 1) EXCEPT
                             !.data = <<SubtaskInsert("a", today, id)>>]}
                  /\ UNCHANGED subtaskInput
             ELSE \* if (!user) return, after setIsOperating(true); the item closes
                  \* its input when the handler has returned
                  /\ subtaskInput' = subtaskInput \ {id}
                  /\ UNCHANGED <<requests, addingSubtask>>
    /\ isOperating' = TRUE
    /\ error' = FALSE
    /\ UNCHANGED <<store, nextId, today, selectedDate, allTodos, todos, loading, streak,
                   streakData, editVars, envVars,
                   objVars, orgVars, itemVars, dailyVars, seriesVars,
                   sessionVars, streakVars>>

\* the checkbox of an item: TodoItem.handleToggle -> handleToggleTodo, up to the update
HandleToggleTodo ==
    /\ ~isOperating /\ ~EditorOpen
    /\ CanSend
    /\ \E id \in RenderedIds \ saving :
          /\ ~hasSubtasks(TodoItemProps(id))
          /\ requests' = requests \cup
                {Request("toggle", id, ~TodoItemProps(id).done, selectedDate, 0)}
    /\ isOperating' = TRUE
    /\ error' = FALSE
    /\ UNCHANGED <<store, nextId, today, selectedDate, allTodos, todos, loading, streak,
                   streakData, subtaskInput, addingSubtask, editVars, envVars,
                   objVars, orgVars, itemVars, dailyVars, seriesVars,
                   sessionVars, streakVars>>

\* a click on the title of an item opens its editor
StartEditing ==
    /\ ~isOperating /\ ~EditorOpen
    /\ \E id \in RenderedIds \ editing : editing' = editing \cup {id}
    /\ UNCHANGED <<store, nextId, requests, today, selectedDate, allTodos, todos, loading,
                   error, isOperating, streak, streakData, subtaskInput, addingSubtask,
                   saving, envVars, objVars, orgVars, itemVars, dailyVars, seriesVars,
                   sessionVars, streakVars>>

\* the title typed into an editor
EditedTitle == "b"

\* Enter or blur in the editor: TodoItem.handleUpdate, with the title unchanged (the
\* editor closes) or changed (handleUpdateTodo, up to the update)
HandleUpdateTodo ==
    \E id \in (editing \ saving) \cap RenderedIds :
       /\ IF EditedTitle = todos.todoMap[id].todo.title
          THEN /\ editing' = editing \ {id}
               /\ UNCHANGED <<requests, saving, isOperating, error>>
          ELSE /\ CanSend
               /\ saving' = saving \cup {id}
               /\ requests' = requests \cup
                     {[Request("update", id, FALSE, selectedDate, 0) EXCEPT
                          !.data = <<EditedTitle>>]}
               /\ isOperating' = TRUE
               /\ error' = FALSE
               /\ UNCHANGED editing
       /\ UNCHANGED <<store, nextId, today, selectedDate, allTodos, todos, loading, streak,
                      streakData, subtaskInput, addingSubtask, envVars,
                      objVars, orgVars, itemVars, dailyVars, seriesVars,
                   sessionVars, streakVars>>

\* the delete button of an item: handleDeleteTodo, up to the delete
HandleDeleteTodo ==
    /\ ~isOperating /\ ~EditorOpen
    /\ CanSend
    /\ \E id \in RenderedIds \ saving :
          requests' = requests \cup {Request("delete", id, FALSE, selectedDate, 0)}
    /\ isOperating' = TRUE
    /\ error' = FALSE
    /\ UNCHANGED <<store, nextId, today, selectedDate, allTodos, todos, loading, streak,
                   streakData, subtaskInput, addingSubtask, editVars, envVars,
                   objVars, orgVars, itemVars, dailyVars, seriesVars,
                   sessionVars, streakVars>>

\* the date input (max = today) or the Today button: setSelectedDate, the effect on
\* [fetchTodos] up to the select, and the effect on [allTodos, loading, isToday], which
\* runs in the commit of the new date with the list and the loading flag of that render
HandleDateChange ==
    /\ ~EditorOpen
    /\ CanSend
    /\ \E date \in SelectableDates \ {selectedDate} :
          /\ selectedDate' = date
          /\ requests' = requests \cup {Request("fetch", NullId, FALSE, date, 0)}
          /\ IF date = today /\ ~loading /\ Len(allTodos) > 0
             THEN LET updated == updateStreak(streakData, today, allDone(allTodos))
                  IN /\ streak' = updated.result
                     /\ streakData' = updated.storage
             ELSE UNCHANGED <<streak, streakData>>
    /\ loading' = TRUE
    /\ error' = FALSE
    \* the spinner replaces the list: every TodoItem is unmounted
    /\ subtaskInput' = {}
    /\ addingSubtask' = {}
    /\ editing' = {}
    /\ saving' = {}
    /\ UNCHANGED <<store, nextId, today, allTodos, todos, isOperating, envVars,
                   objVars, orgVars, itemVars, dailyVars, seriesVars,
                   sessionVars, streakVars>>

\* the states of the table one insert call can end in: a single INSERT statement
\* stores all of its rows or none of them
InsertOutcomes(st, id, columns) == {st, InsertRows(st, id, columns)}

\* update({ title }).eq('id', id)
UpdateTitle(st, id, title) ==
    [k \in DOMAIN st |-> IF k = id THEN [st[k] EXCEPT !.title = title] ELSE st[k]]

\* the store executes a request
StoreExecute ==
    \E r \in requests :
       /\ r.status = "sent"
       /\ LET answer(status, data) == [r EXCEPT !.status = status, !.data = data]
              reply(a) == requests' = (requests \ {r}) \cup {a}
          IN CASE r.kind = "fetch" ->
                    /\ reply(answer("ok", RowsNewestFirst(store, r.date, nextId - 1)))
                    /\ UNCHANGED <<store, nextId>>
               [] r.kind = "add" ->
                    /\ store' = InsertRows(store, nextId, r.data)
                    /\ nextId' = nextId + Len(r.data)
                    /\ reply(answer("ok", NewRows(nextId, r.data)))
               [] r.kind = "addSubtask" ->
                    IF r.id \in DOMAIN store
                    THEN /\ store' = InsertRows(store, nextId, r.data)
                         /\ nextId' = nextId + 1
                         /\ reply(answer("ok", NewRows(nextId, r.data)))
                    ELSE \* the foreign key on parent_id rejects the row
                         /\ reply(answer("error", <<>>))
                         /\ UNCHANGED <<store, nextId>>
               [] r.kind = "toggle" ->
                    /\ store' = UpdateDone(store, r.id, r.done)
                    /\ reply(answer("ok", <<>>))
                    /\ UNCHANGED nextId
               [] r.kind = "update" ->
                    /\ store' = UpdateTitle(store, r.id, r.data[1])
                    /\ reply(answer("ok", r.data))
                    /\ UNCHANGED nextId
               [] r.kind = "delete" ->
                    /\ store' = DeleteRow(store, r.id)
                    /\ reply(answer("ok", <<>>))
                    /\ UNCHANGED nextId
       /\ UNCHANGED <<today, selectedDate, allTodos, todos, loading, error, isOperating,
                      streak, streakData, subtaskInput, addingSubtask,
                      editVars, envVars,
                   objVars, orgVars, itemVars, dailyVars, seriesVars,
                   sessionVars, streakVars>>

\* a request fails: the network, or the store refuses it
StoreFail ==
    \E r \in requests :
       /\ r.status = "sent"
       /\ requests' = (requests \ {r}) \cup {[r EXCEPT !.status = "error"]}
       /\ UNCHANGED <<store, nextId, today, selectedDate, allTodos, todos, loading, error,
                      isOperating, streak, streakData, subtaskInput, addingSubtask,
                      editVars, envVars,
                   objVars, orgVars, itemVars, dailyVars, seriesVars,
                   sessionVars, streakVars>>

\* `if (error) throw error` after an await: the reply carries an error
ThrownNever(r) == FALSE
Thrown(r) == r.status # "ok"

\* what fetchTodos stores of a reply: setAllTodos(flatTodos), whichever date is
\* selected by now
FetchedListIfSelected(r, all) == IF r.date = selectedDate THEN r.data ELSE all
FetchedList(r, all) == r.data

\* fetchTodos after its await, and the effect
FetchTodosSettled ==
    \E r \in requests :
       /\ r.kind = "fetch" /\ r.status # "sent"
       /\ requests' = requests \ {r}
       /\ IF ~Thrown(r)
          THEN /\ allTodos' = FetchedList(r, allTodos)
               /\ UNCHANGED error
          ELSE /\ error' = TRUE
               /\ UNCHANGED allTodos
       /\ loading' = FALSE
       /\ PageEffect(allTodos', FALSE, {}, {})
       /\ UNCHANGED <<store, nextId, today, selectedDate, isOperating, addingSubtask,
                      envVars, objVars, orgVars, itemVars, dailyVars, seriesVars,
                   sessionVars, streakVars>>

\* handleAddTodo after its await, and the effect
AddTodoSettled ==
    \E r \in requests :
       /\ r.kind = "add" /\ r.status # "sent"
       /\ requests' = requests \ {r}
       /\ LET found == {i \in DOMAIN r.data : r.data[i].task_date = today}
              todayTask == r.data[CHOOSE i \in found : \A j \in found : i <= j]
          IN IF ~Thrown(r)
             THEN /\ IF r.wasToday /\ Len(r.data) > 0 /\ found # {}
                     THEN /\ allTodos' = <<todayTask>> \o allTodos
                          /\ PageEffect(allTodos', loading, {}, {})
                     ELSE UNCHANGED <<allTodos, todos, streak, streakData, subtaskInput,
                                      editVars>>
                  /\ UNCHANGED error
             ELSE /\ error' = TRUE
                  /\ UNCHANGED <<allTodos, todos, streak, streakData, subtaskInput,
                                 editVars>>
       /\ isOperating' = FALSE
       /\ UNCHANGED <<store, nextId, today, selectedDate, loading, addingSubtask,
                      envVars, objVars, orgVars, itemVars, dailyVars, seriesVars,
                   sessionVars, streakVars>>

\* handleAddSubtask after its await, the effect, and TodoItem.handleAddSubtask after
\* its own await: the page handler never rejects, so the item closes its input
AddSubtaskSettled ==
    \E r \in requests :
       /\ r.kind = "addSubtask" /\ r.status # "sent"
       /\ requests' = requests \ {r}
       /\ IF ~Thrown(r)
          THEN /\ allTodos' = allTodos \o r.data
               /\ PageEffect(allTodos', loading, {r.id}, {})
               /\ UNCHANGED error
          ELSE /\ error' = TRUE
               /\ subtaskInput' = subtaskInput \ {r.id}
               /\ UNCHANGED <<allTodos, todos, streak, streakData, editVars>>
       /\ isOperating' = FALSE
       /\ addingSubtask' = addingSubtask \ {r.id}
       /\ UNCHANGED <<store, nextId, today, selectedDate, loading,
                      envVars, objVars, orgVars, itemVars, dailyVars, seriesVars,
                   sessionVars, streakVars>>

\* handleToggleTodo after its await, and the effect
ToggleTodoSettled ==
    \E r \in requests :
       /\ r.kind = "toggle" /\ r.status # "sent"
       /\ requests' = requests \ {r}
       /\ IF ~Thrown(r)
          THEN /\ allTodos' = [i \in DOMAIN allTodos |->
                                 IF allTodos[i].id = r.id
                                 THEN [allTodos[i] EXCEPT !.done = r.done]
                                 ELSE allTodos[i]]
               /\ PageEffect(allTodos', loading, {}, {})
               /\ UNCHANGED error
          ELSE /\ error' = TRUE
               /\ UNCHANGED <<allTodos, todos, streak, streakData, subtaskInput,
                              editVars>>
       /\ isOperating' = FALSE
       /\ UNCHANGED <<store, nextId, today, selectedDate, loading, addingSubtask,
                      envVars, objVars, orgVars, itemVars, dailyVars, seriesVars,
                   sessionVars, streakVars>>

\* handleUpdateTodo after its await, the effect, and TodoItem.handleUpdate after its
\* own await: the page handler never rejects, so the item closes its editor
UpdateTodoSettled ==
    \E r \in requests :
       /\ r.kind = "update" /\ r.status # "sent"
       /\ requests' = requests \ {r}
       /\ IF ~Thrown(r)
          THEN /\ allTodos' = [i \in DOMAIN allTodos |->
                                 IF allTodos[i].id = r.id
                                 THEN [allTodos[i] EXCEPT !.title = r.data[1]]
                                 ELSE allTodos[i]]
               /\ PageEffect(allTodos', loading, {}, {r.id})
               /\ UNCHANGED error
          ELSE /\ error' = TRUE
               /\ editing' = editing \ {r.id}
               /\ saving' = saving \ {r.id}
               /\ UNCHANGED <<allTodos, todos, streak, streakData, subtaskInput>>
       /\ isOperating' = FALSE
       /\ UNCHANGED <<store, nextId, today, selectedDate, loading, addingSubtask,
                      envVars, objVars, orgVars, itemVars, dailyVars, seriesVars,
                   sessionVars, streakVars>>

\* handleDeleteTodo after its await, and the effect
DeleteTodoSettled ==
    \E r \in requests :
       /\ r.kind = "delete" /\ r.status # "sent"
       /\ requests' = requests \ {r}
       /\ IF ~Thrown(r)
          THEN /\ LET Kept(todo) == todo.id # r.id /\ todo.parent_id # r.id
                  IN allTodos' = SelectSeq(allTodos, Kept)
               /\ PageEffect(allTodos', loading, {}, {})
               /\ UNCHANGED error
          ELSE /\ error' = TRUE
               /\ UNCHANGED <<allTodos, todos, streak, streakData, subtaskInput,
                              editVars>>
       /\ isOperating' = FALSE
       /\ UNCHANGED <<store, nextId, today, selectedDate, loading, addingSubtask,
                      envVars, objVars, orgVars, itemVars, dailyVars, seriesVars,
                   sessionVars, streakVars>>

(***************************************************************************)
(* The objective_subtask_completions table (Supabase SQL for Goal Planning) *)
(* and lib/objectiveService.ts: toggleSubtaskCompletion.  The table is a    *)
(* sequence of rows, so that a second row for one key would show.           *)
(***************************************************************************)
CompletionRow(subtaskId, dateStr) ==
    [subtask_id |-> subtaskId, completion_date |-> dateStr]

\* the rows with this key
CompletionsOf(rows, subtaskId, dateStr) ==
    {i \in DOMAIN rows : rows[i] = CompletionRow(subtaskId, dateStr)}

\* no constraint on the table: the row is always added
InsertCompletionNoUnique(rows, subtaskId, dateStr) ==
    Append(rows, CompletionRow(subtaskId, dateStr))

\* insert({subtask_id, user_id, completion_date}); UNIQUE(subtask_id, completion_date)
\* rejects a second row
InsertCompletion(rows, subtaskId, dateStr) ==
    IF CompletionsOf(rows, subtaskId, dateStr) # {} THEN rows
    ELSE Append(rows, CompletionRow(subtaskId, dateStr))

\* the date filter is lost: every completion of the subtask goes
DeleteCompletionAnyDate(rows, subtaskId, dateStr) ==
    LET Kept(row) == row.subtask_id # subtaskId IN SelectSeq(rows, Kept)

\* delete().eq('subtask_id', ..).eq('user_id', ..).eq('completion_date', ..)
DeleteCompletion(rows, subtaskId, dateStr) ==
    LET Kept(row) == row # CompletionRow(subtaskId, dateStr) IN SelectSeq(rows, Kept)

\* toggleSubtaskCompletion: what the table holds once the store has executed the call
toggleSubtaskCompletion(rows, subtaskId, dateStr, completed) ==
    IF completed THEN InsertCompletion(rows, subtaskId, dateStr)
    ELSE DeleteCompletion(rows, subtaskId, dateStr)

\* the objective the daily page shows subtasks of: one task, two subtasks in a first
\* phase and one in a second
DailyObjective ==
    MakeObjective(1, <<<<2, 3>>, <<2, 5>>, <<7, 4>>>>, <<1, 1, 1>>)

\* new Date(dateStr + 'T12:00:00').getTime()
NoonOf(dateStr) == DateGetTime(dateStr) + (MsPerDay \div 2)

\* fetchActiveSubtasksForToday: the active subtasks of the date, each with
\* completed: completions.includes(item.subtask.id)
fetchActiveSubtasksForToday(rows, dateStr) ==
    LET active == getActiveSubtasks(DailyObjective, NoonOf(dateStr))
    IN [i \in DOMAIN active |->
          [id |-> active[i].id,
           completed |-> CompletionsOf(rows, active[i].id, dateStr) # {}]]

(***************************************************************************)
(* The daily page: the TodosPage that lists the active objective subtasks   *)
(* of the selected date (fetchData, handleToggle, handleDateChange).        *)
(***************************************************************************)
\* prev.map(item => item.subtask.id === subtaskId ? { ...item, completed } : item)
WithCompleted(list, subtaskId, completed) ==
    [i \in DOMAIN list |->
        IF list[i].id = subtaskId THEN [list[i] EXCEPT !.completed = completed]
        ELSE list[i]]

\* subtasks.filter(s => s.completed).length, of subtasks.length
dailyCompletedCount(list) == Cardinality({i \in DOMAIN list : list[i].completed})

dailyTotalCount(list) == Len(list)

\* data.every(s => s.completed)
allCompletedOf(list) == \A i \in DOMAIN list : list[i].completed

\* if (isToday && list.length > 0) setStreak(streakService.updateStreak(allCompleted))
DailyStreakUpdate(list, wasToday) ==
    IF wasToday /\ Len(list) > 0
    THEN LET updated == updateStreak(streakData, today, allCompletedOf(list))
         IN /\ streak' = updated.result
            /\ streakData' = updated.storage
    ELSE UNCHANGED <<streak, streakData>>

\* the store answers fetchActiveSubtasksForToday
DailyFetchExecute ==
    \E r \in requests :
       /\ r.kind = "fetchActive" /\ r.status = "sent"
       /\ requests' = (requests \ {r}) \cup
             {[r EXCEPT !.status = "ok",
                        !.data = fetchActiveSubtasksForToday(completions, r.date)]}
       /\ UNCHANGED <<today, selectedDate, loading, error, isOperating, streak, streakData,
                      todoVars, dailyVars, objVars, orgVars, itemVars, seriesVars,
                   sessionVars, streakVars>>

\* a query of fetchActiveSubtasksForToday fails: one of fetchObjectivesWithDetails,
\* which throws, or the completions query, whose error is not read
DailyFetchFail ==
    \E r \in requests :
       /\ r.kind = "fetchActive" /\ r.status = "sent"
       /\ \/ requests' = (requests \ {r}) \cup {[r EXCEPT !.status = "error"]}
          \/ requests' = (requests \ {r}) \cup
                {[r EXCEPT !.status = "ok",
                           !.data = fetchActiveSubtasksForToday(<<>>, r.date)]}
       /\ UNCHANGED <<today, selectedDate, loading, error, isOperating, streak, streakData,
                      todoVars, dailyVars, objVars, orgVars, itemVars, seriesVars,
                   sessionVars, streakVars>>

\* fetchData after its await; isToday is the one of the render that made the callback
DailyFetchSettled ==
    \E r \in requests :
       /\ r.kind = "fetchActive" /\ r.status # "sent"
       /\ requests' = requests \ {r}
       /\ IF r.status = "ok"
          THEN /\ subtaskItems' = r.data
               /\ DailyStreakUpdate(r.data, r.wasToday)
               /\ UNCHANGED error
          ELSE /\ error' = TRUE
               /\ UNCHANGED <<subtaskItems, streak, streakData>>
       /\ loading' = FALSE
       /\ UNCHANGED <<today, selectedDate, isOperating, completions,
                      todoVars, objVars, orgVars, itemVars, seriesVars,
                   sessionVars, streakVars>>

\* the checkbox of an item: handleToggle up to its await; the request keeps the
\* subtasks and isToday of the render the handler belongs to
DailyHandleToggle ==
    /\ ~loading /\ ~isOperating /\ isToday
    /\ CanSend
    /\ \E i \in DOMAIN subtaskItems :
          requests' = requests \cup
             {[Request("toggleCompletion", subtaskItems[i].id, ~subtaskItems[i].completed,
                       selectedDate, 0) EXCEPT !.data = subtaskItems]}
    /\ isOperating' = TRUE
    /\ UNCHANGED <<today, selectedDate, loading, error, streak, streakData,
                   todoVars, dailyVars, objVars, orgVars, itemVars, seriesVars,
                   sessionVars, streakVars>>

\* the store executes the insert or delete of toggleSubtaskCompletion
DailyToggleExecute ==
    \E r \in requests :
       /\ r.kind = "toggleCompletion" /\ r.status = "sent"
       /\ completions' = toggleSubtaskCompletion(completions, r.id, r.date, r.done)
       /\ requests' = (requests \ {r}) \cup
             {[r EXCEPT !.status =
                  IF r.done /\ CompletionsOf(completions, r.id, r.date) # {}
                  THEN "rejected" ELSE "ok"]}
       /\ UNCHANGED <<today, selectedDate, loading, error, isOperating, streak, streakData,
                      subtaskItems, todoVars, objVars, orgVars, itemVars, seriesVars,
                   sessionVars, streakVars>>

\* the insert or delete fails: the store returns an error and keeps its rows
DailyToggleFail ==
    \E r \in requests :
       /\ r.kind = "toggleCompletion" /\ r.status = "sent"
       /\ requests' = (requests \ {r}) \cup {[r EXCEPT !.status = "error"]}
       /\ UNCHANGED <<today, selectedDate, loading, error, isOperating, streak, streakData,
                      todoVars, dailyVars, objVars, orgVars, itemVars, seriesVars,
                   sessionVars, streakVars>>

\* handleToggle after its await: toggleSubtaskCompletion does not read the error the
\* store returns, so the handler continues the same way whatever the answer
DailyToggleSettled ==
    \E r \in requests :
       /\ r.kind = "toggleCompletion" /\ r.status # "sent"
       /\ requests' = requests \ {r}
       /\ subtaskItems' = WithCompleted(subtaskItems, r.id, r.done)
       /\ DailyStreakUpdate(WithCompleted(r.data, r.id, r.done), r.wasToday)
       /\ isOperating' = FALSE
       /\ UNCHANGED <<today, selectedDate, loading, error, completions,
                      todoVars, objVars, orgVars, itemVars, seriesVars,
                   sessionVars, streakVars>>

\* handleDateChange / goToToday, and fetchData of the effect up to its await
DailyDateChange ==
    /\ CanSend
    /\ \E d \in SelectableDates \ {selectedDate} :
          /\ selectedDate' = d
          /\ requests' = requests \cup {Request("fetchActive", NullId, FALSE, d, 0)}
    /\ loading' = TRUE
    /\ error' = FALSE
    /\ UNCHANGED <<today, isOperating, streak, streakData,
                   todoVars, dailyVars, objVars, orgVars, itemVars, seriesVars,
                   sessionVars, streakVars>>

(***************************************************************************)
(* The specifications.  Each applies one part of the program to inputs     *)
(* drawn from its bounds and leaves the variables of the other parts idle. *)
(***************************************************************************)
\* getActiveSubtasks and calculateObjectiveDuration on one objective
ObjInit ==
    /\ \E n \in 0..Len(TaskIds), k \in 0..MaxSubtasks :
          \E detail \in [1..k -> PhaseOrders \X Durations], owner \in [1..k -> 1..n] :
              /\ \A j \in 1..(k - 1) : owner[j] <= owner[j + 1]
              /\ objective = MakeObjective(n, detail, owner)
    /\ targetDate = Null
    /\ activeSubtasks = <<>>
    /\ totalDuration = 0
    /\ objPc = "input"
    /\ flatTodos = <<>> /\ todoMap = <<>> /\ rootTodos = <<>> /\ orgPc = "idle"
    /\ item = <<>> /\ itemView = <<>> /\ itemOperating = FALSE
    /\ itemCalls = <<>> /\ itemPc = "idle"
    /\ store = <<>> /\ nextId = 0 /\ requests = {} /\ today = 0 /\ selectedDate = 0
    /\ allTodos = <<>> /\ todos = <<>> /\ loading = FALSE /\ error = FALSE
    /\ isOperating = FALSE /\ streak = 0 /\ streakData = <<>>
    /\ subtaskInput = {} /\ addingSubtask = {}
    /\ completions = <<>> /\ subtaskItems = <<>>
    /\ seriesTodos = <<>> /\ seriesGroups = <<>> /\ seriesRuns = 0
    /\ user = FALSE /\ streakCall = <<>>
    /\ editing = {} /\ saving = {} /\ nextTemplate = 0 /\ timeZone = <<>>

ObjNext == GetActiveSubtasks \/ CalculateObjectiveDuration

SpecObjective == ObjInit /\ [][ObjNext]_vars

\* organizeTodos on one flat list
OrgInit ==
    /\ flatTodos \in FlatTodoLists
    /\ todoMap = <<>>
    /\ rootTodos = <<>>
    /\ orgPc = "input"
    /\ objective = Null /\ targetDate = Null /\ activeSubtasks = <<>>
    /\ totalDuration = 0 /\ objPc = "idle"
    /\ item = <<>> /\ itemView = <<>> /\ itemOperating = FALSE
    /\ itemCalls = <<>> /\ itemPc = "idle"
    /\ store = <<>> /\ nextId = 0 /\ requests = {} /\ today = 0 /\ selectedDate = 0
    /\ allTodos = <<>> /\ todos = <<>> /\ loading = FALSE /\ error = FALSE
    /\ isOperating = FALSE /\ streak = 0 /\ streakData = <<>>
    /\ subtaskInput = {} /\ addingSubtask = {}
    /\ completions = <<>> /\ subtaskItems = <<>>
    /\ seriesTodos = <<>> /\ seriesGroups = <<>> /\ seriesRuns = 0
    /\ user = FALSE /\ streakCall = <<>>
    /\ editing = {} /\ saving = {} /\ nextTemplate = 0 /\ timeZone = <<>>

OrgNext == OrganizeTodos

SpecOrganize == OrgInit /\ [][OrgNext]_vars

\* one TodoItem or GoalItem
ItemInit ==
    /\ item \in
         {[kind |-> k, done |-> d, listed |-> l, children |-> c, disabled |-> x] :
            k \in {"todo", "goal"}, d \in BOOLEAN, l \in BOOLEAN, x \in BOOLEAN,
            c \in UNION {[1..n -> BOOLEAN] : n \in 0..MaxChildren}}
    /\ item.listed \/ item.children = <<>>
    /\ itemView = [effectiveDone |-> FALSE, checkbox |-> FALSE]
    /\ itemOperating = FALSE
    /\ itemCalls = <<>>
    /\ itemPc = "props"
    /\ objective = Null /\ targetDate = Null /\ activeSubtasks = <<>>
    /\ totalDuration = 0 /\ objPc = "idle"
    /\ flatTodos = <<>> /\ todoMap = <<>> /\ rootTodos = <<>> /\ orgPc = "idle"
    /\ store = <<>> /\ nextId = 0 /\ requests = {} /\ today = 0 /\ selectedDate = 0
    /\ allTodos = <<>> /\ todos = <<>> /\ loading = FALSE /\ error = FALSE
    /\ isOperating = FALSE /\ streak = 0 /\ streakData = <<>>
    /\ subtaskInput = {} /\ addingSubtask = {}
    /\ completions = <<>> /\ subtaskItems = <<>>
    /\ seriesTodos = <<>> /\ seriesGroups = <<>> /\ seriesRuns = 0
    /\ user = FALSE /\ streakCall = <<>>
    /\ editing = {} /\ saving = {} /\ nextTemplate = 0 /\ timeZone = <<>>

ItemNext == ItemRender \/ ItemHandleToggle \/ ItemToggleSettled

SpecItem == ItemInit /\ [][ItemNext]_vars

\* what localStorage may hold when the page is opened
StoredStreaks ==
    {<<>>} \cup {<<[currentStreak |-> 2, lastCompletedDate |-> d]>> :
                    d \in (FirstDay - 2)..FirstDay}

\* America/Lima: five hours behind UTC, no daylight saving
Lima == [standard |-> -5, dst |-> FALSE, dstFrom |-> 0]

\* the browser's time zone: Lima, or a zone five hours behind UTC whose clocks go
\* forward on FirstDay at two in the night
TimeZones ==
    {Lima, [standard |-> -5, dst |-> TRUE, dstFrom |-> DateParse(FirstDay) + 7]}

\* the todos page, mounted on FirstDay: useState initial values, validateStreak run,
\* fetchTodos of the mount effect on its way, or returned at once (loading off) when
\* no user is signed in
PageOpened(tables, streaks, zones, users) ==
    /\ user \in users
    /\ store \in tables
    /\ nextId = Cardinality(DOMAIN store) + 1
    /\ today = FirstDay
    /\ selectedDate = FirstDay
    /\ requests = IF user THEN {Request("fetch", NullId, FALSE, FirstDay, 0)} ELSE {}
    /\ allTodos = <<>>
    /\ todos = organizeTodos(<<>>)
    /\ loading = user
    /\ error = FALSE
    /\ isOperating = FALSE
    /\ \E stored \in streaks :
          /\ streak = validateStreak(stored, FirstDay).result
          /\ streakData = validateStreak(stored, FirstDay).storage
    /\ subtaskInput = {}
    /\ addingSubtask = {}
    /\ editing = {}
    /\ saving = {}
    /\ nextTemplate = nextId
    /\ timeZone \in zones
    /\ completions = <<>> /\ subtaskItems = <<>>
    /\ seriesTodos = <<>> /\ seriesGroups = <<>> /\ seriesRuns = 0
    /\ streakCall = <<>>
    /\ objective = Null /\ targetDate = Null /\ activeSubtasks = <<>>
    /\ totalDuration = 0 /\ objPc = "idle"
    /\ flatTodos = <<>> /\ todoMap = <<>> /\ rootTodos = <<>> /\ orgPc = "idle"
    /\ item = <<>> /\ itemView = <<>> /\ itemOperating = FALSE
    /\ itemCalls = <<>> /\ itemPc = "idle"

\* the page opened with an empty table
PageInit == PageOpened({<<>>}, StoredStreaks, TimeZones, {TRUE})

PageNext ==
    \/ HandleAddTodo
    \/ ShowSubtaskInput
    \/ HandleAddSubtask
    \/ HandleToggleTodo
    \/ HandleDeleteTodo
    \/ StoreExecute
    \/ StoreFail
    \/ FetchTodosSettled
    \/ AddTodoSettled
    \/ AddSubtaskSettled
    \/ ToggleTodoSettled
    \/ DeleteTodoSettled

SpecPage == PageInit /\ [][PageNext]_vars

\* a task row as the table keeps it
StoredTodo(id, date, done) ==
    [TodoInsert("a", date, NullId, "work", 1, date, id) EXCEPT !.id = id, !.done = done]

\* what the todos table may hold when the page is opened on a later visit: a task of
\* the day before and a task of the day, each completed or not
StoredTodos ==
    {(1 :> StoredTodo(1, FirstDay - 1, before)) @@ (2 :> StoredTodo(2, FirstDay, now)) :
        before \in BOOLEAN, now \in BOOLEAN}

\* the page opened over one of these tables
HistoryInit == PageOpened(StoredTodos, StoredStreaks, TimeZones, {TRUE})

\* browsing the days: the date input, the checkboxes, the store
HistoryNext ==
    \/ HandleDateChange
    \/ HandleToggleTodo
    \/ StoreExecute
    \/ StoreFail
    \/ FetchTodosSettled
    \/ ToggleTodoSettled

SpecHistory == HistoryInit /\ [][HistoryNext]_vars

\* the first visit, in Lima: nothing in localStorage, an empty table
EditInit == PageOpened({<<>>}, {<<>>}, {Lima}, {TRUE})

\* every mutation of the page, the title editor among them
EditNext ==
    \/ HandleAddTodo
    \/ ShowSubtaskInput
    \/ HandleAddSubtask
    \/ HandleToggleTodo
    \/ StartEditing
    \/ HandleUpdateTodo
    \/ HandleDeleteTodo
    \/ StoreExecute
    \/ StoreFail
    \/ FetchTodosSettled
    \/ AddTodoSettled
    \/ AddSubtaskSettled
    \/ ToggleTodoSettled
    \/ UpdateTodoSettled
    \/ DeleteTodoSettled

SpecEdit == EditInit /\ [][EditNext]_vars

\* the first visit with what useAuth() may give: a user, or null (AuthProvider in
\* demo mode sets user to null and shows the app)
SessionInit == PageOpened({<<>>}, {<<>>}, {Lima}, BOOLEAN)

SpecSession == SessionInit /\ [][EditNext]_vars

\* what the completions table may hold when the daily page is opened
StoredCompletions ==
    {<<>>, <<CompletionRow(1, FirstDay - 1)>>,
     <<CompletionRow(1, FirstDay - 1), CompletionRow(1, FirstDay)>>}

\* the daily page, mounted on FirstDay: useState initial values, validateStreak run,
\* fetchData of the mount effect on its way
DailyInit ==
    /\ completions \in StoredCompletions
    /\ subtaskItems = <<>>
    /\ today = FirstDay
    /\ selectedDate = FirstDay
    /\ requests = {Request("fetchActive", NullId, FALSE, FirstDay, 0)}
    /\ loading = TRUE
    /\ error = FALSE
    /\ isOperating = FALSE
    /\ \E stored \in StoredStreaks :
          /\ streak = validateStreak(stored, FirstDay).result
          /\ streakData = validateStreak(stored, FirstDay).storage
    /\ store = <<>> /\ nextId = 0 /\ allTodos = <<>> /\ todos = <<>>
    /\ subtaskInput = {} /\ addingSubtask = {}
    /\ editing = {} /\ saving = {} /\ nextTemplate = 0 /\ timeZone = <<>>
    /\ objective = Null /\ targetDate = Null /\ activeSubtasks = <<>>
    /\ totalDuration = 0 /\ objPc = "idle"
    /\ flatTodos = <<>> /\ todoMap = <<>> /\ rootTodos = <<>> /\ orgPc = "idle"
    /\ item = <<>> /\ itemView = <<>> /\ itemOperating = FALSE
    /\ seriesTodos = <<>> /\ seriesGroups = <<>> /\ seriesRuns = 0
    /\ user = TRUE /\ streakCall = <<>>
    /\ itemCalls = <<>> /\ itemPc = "idle"

DailyNext ==
    \/ DailyFetchExecute
    \/ DailyFetchFail
    \/ DailyFetchSettled
    \/ DailyHandleToggle
    \/ DailyToggleExecute
    \/ DailyToggleFail
    \/ DailyToggleSettled
    \/ DailyDateChange

SpecDaily == DailyInit /\ [][DailyNext]_vars

(***************************************************************************)
(* Recurring-series grouping (groupRecurringSeries): the todos of a date    *)
(* range folded into series with their progress, the series grouped by      *)
(* category.  A todo of the list is named by its position.                  *)
(***************************************************************************)
MaxSeriesTodos == 3   \* todos in the range

\* the categories in alphabetical order
CategoryOrder == <<"home", "work">>

\* the subtasks an instance has among the todos of the range
InstanceSubtasks(all, i) == {j \in DOMAIN all : all[j].parent_id = all[i].id}

\* the instance's own flag, whatever its subtasks are
EffectiveDoneOwnFlag(all, i) == all[i].done

\* the effective-done rule per instance: every subtask done when it has subtasks,
\* its own done flag otherwise
EffectiveDone(all, i) ==
    IF InstanceSubtasks(all, i) # {}
    THEN \A j \in InstanceSubtasks(all, i) : all[j].done
    ELSE all[i].done

RECURSIVE SeriesFold(_, _, _)
\* one pass over the list from position i on: a main todo joins the series of its
\* template_id, or opens a new one behind those met so far
SeriesFold(all, i, series) ==
    IF i > Len(all) THEN series
    ELSE IF all[i].parent_id # NullId THEN SeriesFold(all, i + 1, series)
    ELSE LET met == {g \in DOMAIN series : series[g].template_id = all[i].template_id}
         IN IF met = {}
            THEN SeriesFold(all, i + 1,
                            Append(series, [template_id |-> all[i].template_id,
                                            category |-> all[i].category,
                                            instances |-> <<i>>]))
            ELSE LET g == CHOOSE g \in met : TRUE
                 IN SeriesFold(all, i + 1,
                               [series EXCEPT ![g].instances = Append(@, i)])

\* a series with its progress: total-count and completed-count over its instances
WithProgress(all, s) ==
    [template_id |-> s.template_id, category |-> s.category, instances |-> s.instances,
     total |-> Len(s.instances),
     completed |-> Cardinality({k \in DOMAIN s.instances :
                                  EffectiveDone(all, s.instances[k])})]

\* groupRecurringSeries(allTodosInRange): the categories in alphabetical order, each
\* with its series in the order they were met
groupRecurringSeries(all) ==
    LET folded == SeriesFold(all, 1, <<>>)
        series == [g \in DOMAIN folded |-> WithProgress(all, folded[g])]
        Used(category) == \E g \in DOMAIN series : series[g].category = category
        categories == SelectSeq(CategoryOrder, Used)
    IN [c \in DOMAIN categories |->
          LET Of(s) == s.category = categories[c]
          IN [category |-> categories[c], series |-> SelectSeq(series, Of)]]

\* a todo of the range: a main todo with a category and a series identifier or none,
\* or a subtask of a todo of the range
RangeTodos(n) ==
    [1..n ->
       {[id |-> NullId, parent_id |-> NullId, done |-> d, category |-> c,
         template_id |-> t] : d \in BOOLEAN, c \in Range(CategoryOrder), t \in 0..2}
       \cup
       {[id |-> NullId, parent_id |-> q, done |-> d, category |-> Null,
         template_id |-> NullId] : q \in 1..n, d \in BOOLEAN}]

\* the todos of a range, fetched, each with its id
SeriesInit ==
    /\ \E n \in 0..MaxSeriesTodos : \E list \in RangeTodos(n) :
          seriesTodos = [i \in 1..n |-> [list[i] EXCEPT !.id = i]]
    /\ seriesGroups = <<>>
    /\ seriesRuns = 0
    /\ user = FALSE /\ streakCall = <<>>
    /\ store = <<>> /\ nextId = 0 /\ requests = {} /\ today = 0 /\ selectedDate = 0
    /\ allTodos = <<>> /\ todos = <<>> /\ loading = FALSE /\ error = FALSE
    /\ isOperating = FALSE /\ streak = 0 /\ streakData = <<>>
    /\ subtaskInput = {} /\ addingSubtask = {} /\ editing = {} /\ saving = {}
    /\ nextTemplate = 0 /\ timeZone = <<>>
    /\ completions = <<>> /\ subtaskItems = <<>>
    /\ objective = Null /\ targetDate = Null /\ activeSubtasks = <<>>
    /\ totalDuration = 0 /\ objPc = "idle"
    /\ flatTodos = <<>> /\ todoMap = <<>> /\ rootTodos = <<>> /\ orgPc = "idle"
    /\ item = <<>> /\ itemView = <<>> /\ itemOperating = FALSE
    /\ itemCalls = <<>> /\ itemPc = "idle"

\* one call of groupRecurringSeries on the list; the list is only read
GroupSeries ==
    /\ seriesRuns < 2
    /\ seriesGroups' = groupRecurringSeries(seriesTodos)
    /\ seriesRuns' = seriesRuns + 1
    /\ UNCHANGED <<seriesTodos, objVars, orgVars, itemVars, pageVars, dailyVars,
                   sessionVars, streakVars>>

SeriesNext == GroupSeries

SpecSeries == SeriesInit /\ [][SeriesNext]_vars

(***************************************************************************)
(* lib/streakService.ts called on its own: getStreakData, updateStreak and  *)
(* validateStreak in any order, on a calendar that only moves forward.     *)
(* streakCall keeps the last call: what localStorage held before it, the   *)
(* day it was made on, and what it returned.                               *)
(***************************************************************************)
LastDay == 7          \* the last day of the calendar

\* the page state the service does not touch
StreakIdle == <<todoVars, requests, selectedDate, loading, error, isOperating, streak,
                objVars, orgVars, itemVars, dailyVars, seriesVars, sessionVars>>

\* the record of one call
StreakCall(op, isAllCompleted, result) ==
    <<[op |-> op, isAllCompleted |-> isAllCompleted, day |-> today,
       before |-> streakData, result |-> result]>>

\* nothing in localStorage, no call made yet
StreakInit ==
    /\ today = FirstDay
    /\ streakData = <<>>
    /\ streakCall = <<>>
    /\ user = FALSE
    /\ seriesTodos = <<>> /\ seriesGroups = <<>> /\ seriesRuns = 0
    /\ store = <<>> /\ nextId = 0 /\ requests = {} /\ selectedDate = 0
    /\ allTodos = <<>> /\ todos = <<>> /\ loading = FALSE /\ error = FALSE
    /\ isOperating = FALSE /\ streak = 0
    /\ subtaskInput = {} /\ addingSubtask = {} /\ editing = {} /\ saving = {}
    /\ nextTemplate = 0 /\ timeZone = <<>>
    /\ completions = <<>> /\ subtaskItems = <<>>
    /\ objective = Null /\ targetDate = Null /\ activeSubtasks = <<>>
    /\ totalDuration = 0 /\ objPc = "idle"
    /\ flatTodos = <<>> /\ todoMap = <<>> /\ rootTodos = <<>> /\ orgPc = "idle"
    /\ item = <<>> /\ itemView = <<>> /\ itemOperating = FALSE
    /\ itemCalls = <<>> /\ itemPc = "idle"

\* getStreakData(): reads only
GetStreakData ==
    /\ streakCall' = StreakCall("get", FALSE, getStreakData(streakData))
    /\ UNCHANGED <<today, streakData, StreakIdle>>

\* updateStreak(isAllCompleted), today being todayLima()
UpdateStreak ==
    \E isAllCompleted \in BOOLEAN :
       LET call == updateStreak(streakData, today, isAllCompleted)
       IN /\ streakData' = call.storage
          /\ streakCall' = StreakCall("update", isAllCompleted, call.result)
          /\ UNCHANGED <<today, StreakIdle>>

\* validateStreak(), today being todayLima()
ValidateStreak ==
    LET call == validateStreak(streakData, today)
    IN /\ streakData' = call.storage
       /\ streakCall' = StreakCall("validate", FALSE, call.result)
       /\ UNCHANGED <<today, StreakIdle>>

\* midnight in Lima: todayLima() gives the next date from now on
NextDay ==
    /\ today < LastDay
    /\ today' = today + 1
    /\ UNCHANGED <<streakData, streakCall, StreakIdle>>

StreakNext == GetStreakData \/ UpdateStreak \/ ValidateStreak \/ NextDay

SpecStreak == StreakInit /\ [][StreakNext]_vars

(***************************************************************************)
(* The schedule stated declaratively, for the claims about objectives.     *)
(***************************************************************************)
TaskIndices(obj) == DOMAIN obj.tasks

SubtasksOf(task) == Range(task.subtasks)

AllSubtasks(obj) == UNION {SubtasksOf(obj.tasks[t]) : t \in TaskIndices(obj)}

PhasesOf(task) == {s.phase_order : s \in SubtasksOf(task)}

PhaseMembers(task, q) == {s \in SubtasksOf(task) : s.phase_order = q}

\* L: the largest duration_days in phase q of the task
PhaseLen(task, q) == MaxOfSet({s.duration_days : s \in PhaseMembers(task, q)})

\* p: the lengths of the lower-numbered phases of the task, summed
PhaseStart(task, q) ==
    LET lower == {r \in PhasesOf(task) : r < q}
    IN SumOver(lower, [r \in lower |-> PhaseLen(task, r)])

TaskTotal(task) ==
    SumOver(PhasesOf(task), [r \in PhasesOf(task) |-> PhaseLen(task, r)])

\* e: the whole days from the start date to the target, e days fit and e + 1 do not
WholeDays(obj, target) ==
    CHOOSE e \in -(MaxDay + 2)..(MaxDay + 2) :
        /\ DateGetTime(obj.start_date) + e * MsPerDay <= target
        /\ target < DateGetTime(obj.start_date) + (e + 1) * MsPerDay

Qualifies(task, s, e) ==
    LET p == PhaseStart(task, s.phase_order)
        L == PhaseLen(task, s.phase_order)
    IN e >= 0 /\ p <= e /\ e < p + L /\ e - p < s.duration_days

ActiveIds(result) == {result[i].id : i \in DOMAIN result}

\* C1: getActiveSubtasks returns exactly the subtasks s with e >= 0, p <= e < p + L and
\* e - p < s.duration_days, each once and marked active, and nothing before the start date.
C1_ActiveExactlyQualifying ==
    objPc = "active" =>
        LET e == WholeDays(objective, targetDate)
            qualifying == UNION {{s \in SubtasksOf(objective.tasks[t]) :
                                     Qualifies(objective.tasks[t], s, e)} :
                                 t \in TaskIndices(objective)}
        IN /\ ActiveIds(activeSubtasks) = {s.id : s \in qualifying}
           /\ Len(activeSubtasks) = Cardinality(ActiveIds(activeSubtasks))
           /\ \A i \in DOMAIN activeSubtasks :
                 /\ activeSubtasks[i].is_active
                 /\ \E s \in qualifying :
                       /\ s.id = activeSubtasks[i].id
                       /\ s.phase_order = activeSubtasks[i].phase_order
                       /\ s.duration_days = activeSubtasks[i].duration_days
           /\ (e < 0 => activeSubtasks = <<>>)

\* elapsed = 3, one phase holding a 3-day and a 5-day subtask: only the 5-day one is back
C1_Witness ==
    /\ objPc = "active"
    /\ WholeDays(objective, targetDate) = 3
    /\ \E t \in TaskIndices(objective) :
          \E a, b \in SubtasksOf(objective.tasks[t]) :
              /\ a.phase_order = b.phase_order
              /\ a.duration_days = 3 /\ b.duration_days = 5
              /\ PhaseStart(objective.tasks[t], a.phase_order) = 0
              /\ b.id \in ActiveIds(activeSubtasks)
              /\ a.id \notin ActiveIds(activeSubtasks)

\* C2: calculateObjectiveDuration is the largest task total (0 without subtasks), a task
\* total being the sum over the task's distinct phases of the phase's largest duration;
\* it is at least every task's total and, with two tasks that have subtasks, below their sum.
C2_DurationIsLongestTask ==
    objPc = "duration" =>
        LET totals == [t \in TaskIndices(objective) |-> TaskTotal(objective.tasks[t])]
            busy == {t \in TaskIndices(objective) : objective.tasks[t].subtasks # <<>>}
        IN /\ totalDuration = MaxOfSet({totals[t] : t \in TaskIndices(objective)} \cup {0})
           /\ \A t \in TaskIndices(objective) : totalDuration >= totals[t]
           /\ (busy = {} => totalDuration = 0)
           /\ (Cardinality(busy) >= 2 =>
                 totalDuration < SumOver(busy, [t \in busy |-> totals[t]]))

C2_Witness ==
    /\ objPc = "duration"
    /\ Len(objective.tasks) = 2
    /\ TaskTotal(objective.tasks[1]) = 4
    /\ TaskTotal(objective.tasks[2]) = 8
    /\ Cardinality(PhasesOf(objective.tasks[2])) = 2
    /\ totalDuration = 8

\* C3: the phases of a task run back to back in ascending phase number from day 0: phase
\* q has an active subtask exactly on the days p <= e < p + L, so the active subtasks of
\* a task share one phase number, and a task's active subtasks are those it has alone.
C3_PhasesBackToBack ==
    objPc = "active" =>
        LET e == WholeDays(objective, targetDate)
        IN \A t \in TaskIndices(objective) :
             LET task == objective.tasks[t]
                 mine == {activeSubtasks[i] : i \in
                             {j \in DOMAIN activeSubtasks : activeSubtasks[j].task_id = task.id}}
                 alone == getActiveSubtasks(
                              [start_date |-> objective.start_date, tasks |-> <<task>>],
                              targetDate)
             IN /\ \A q \in PhasesOf(task) :
                      (\E s \in mine : s.phase_order = q) <=>
                          (e >= 0 /\ PhaseStart(task, q) <= e
                                  /\ e < PhaseStart(task, q) + PhaseLen(task, q))
                /\ \A a, b \in mine : a.phase_order = b.phase_order
                /\ {s.id : s \in mine} = ActiveIds(alone)

\* phases {2: [5, 3], 7: [4]}: on elapsed day 8, the last day of phase 7, its subtask runs
C3_Witness ==
    /\ objPc = "active"
    /\ WholeDays(objective, targetDate) = 8
    /\ \E t \in TaskIndices(objective) :
          \E a, b, c \in SubtasksOf(objective.tasks[t]) :
              /\ a.phase_order = 2 /\ b.phase_order = 2 /\ c.phase_order = 7
              /\ a.duration_days = 5 /\ b.duration_days = 3 /\ c.duration_days = 4
              /\ ActiveIds(activeSubtasks) = {c.id}

\* the phase numbers of task t replaced by their ranks 1, 2, ... among the task's phases:
\* the form every strictly order-preserving renumbering of the task shares
RankOf(task, q) == Cardinality({r \in PhasesOf(task) : r <= q})

Renumber(obj, t) ==
    [obj EXCEPT !.tasks[t].subtasks =
        [j \in DOMAIN @ |-> [@[j] EXCEPT !.phase_order = RankOf(obj.tasks[t], @)]]]

\* C4: only the order and the equality of a task's phase numbers count: the active
\* subtasks on a date and the objective's duration are those of the objective with the
\* task's phase numbers replaced by their ranks ({2,7,7,10} by {1,2,2,3}), so any two
\* numberings related by a strictly order-preserving renumbering give the same results.
C4_RenumberingInvariant ==
    \A t \in {u \in TaskIndices(objective) : objective.tasks[u].subtasks # <<>>} :
        /\ objPc = "active" =>
              ActiveIds(getActiveSubtasks(Renumber(objective, t), targetDate))
                  = ActiveIds(activeSubtasks)
        /\ objPc = "duration" =>
              calculateObjectiveDuration(Renumber(objective, t)) = totalDuration

\* phases {7, 7, 10}: the gap adds no idle day and the two 7s run together
C4_Witness ==
    /\ objPc = "active"
    /\ \E t \in TaskIndices(objective) :
          \E a, b, c \in SubtasksOf(objective.tasks[t]) :
              /\ a.id # b.id
              /\ a.phase_order = 7 /\ b.phase_order = 7 /\ c.phase_order = 10
              /\ WholeDays(objective, targetDate) = PhaseLen(objective.tasks[t], 7)
              /\ ActiveIds(activeSubtasks) = {c.id}
(***************************************************************************)
(* The forest organizeTodos returns, for the claims about it.              *)
(***************************************************************************)
InputIds == {flatTodos[i].id : i \in DOMAIN flatTodos}

IdsOf(list) == [i \in DOMAIN list |-> list[i].id]

\* the input todos with this parent_id, in input order
WithParent(parent) ==
    LET Is(t) == t.parent_id = parent IN SelectSeq(flatTodos, Is)

RECURSIVE ReachableFrom(_, _)
\* the nodes of the returned forest: the roots and whatever hangs below them
ReachableFrom(ids, fuel) ==
    LET below == UNION {Range(todoMap[id].subtasks) : id \in ids}
    IN IF fuel = 0 \/ below \subseteq ids THEN ids
       ELSE ReachableFrom(ids \cup below, fuel - 1)

ForestNodes == ReachableFrom(Range(rootTodos), Len(flatTodos))

CountIn(list, id) == Cardinality({i \in DOMAIN list : list[i] = id})

\* how often the todo appears in the forest, as a root or in a subtasks list
Occurrences(id) ==
    CountIn(rootTodos, id)
        + SumOver(ForestNodes, [n \in ForestNodes |-> CountIn(todoMap[n].subtasks, id)])

\* C5: the roots are exactly the input todos with a null parent_id, in input order, and
\* each node's subtasks list holds the todos naming it as parent, in input order; an
\* empty list gives an empty forest, a list of parentless todos gives itself.
C5_RootsAndChildrenInInputOrder ==
    orgPc = "done" =>
        /\ rootTodos = IdsOf(WithParent(NullId))
        /\ \A i \in DOMAIN flatTodos :
              /\ todoMap[flatTodos[i].id].todo = flatTodos[i]
              /\ todoMap[flatTodos[i].id].subtasks = IdsOf(WithParent(flatTodos[i].id))
        /\ (flatTodos = <<>> => rootTodos = <<>>)
        /\ ((\A i \in DOMAIN flatTodos : flatTodos[i].parent_id = NullId) =>
              /\ rootTodos = IdsOf(flatTodos)
              /\ \A id \in InputIds : todoMap[id].subtasks = <<>>)

\* two roots listed in an order that is not the order of their ids, one with a child
C5_Witness ==
    /\ orgPc = "done"
    /\ Len(rootTodos) = 2
    /\ rootTodos[1] > rootTodos[2]
    /\ \E r \in Range(rootTodos) : Len(todoMap[r].subtasks) = 1

IsOrphan(t) == t.parent_id # NullId /\ t.parent_id \notin InputIds

IsChildOfRoot(t) ==
    /\ t.parent_id # NullId
    /\ \E i \in DOMAIN flatTodos :
          flatTodos[i].id = t.parent_id /\ flatTodos[i].parent_id = NullId

\* C6: a todo whose parent_id names no todo of the input appears nowhere in the forest,
\* neither as a root nor in a subtasks list; a todo whose parent is a root appears once.
C6_OrphansDropped ==
    orgPc = "done" =>
        \A i \in DOMAIN flatTodos :
            /\ IsOrphan(flatTodos[i]) =>
                  /\ flatTodos[i].id \notin ForestNodes
                  /\ Occurrences(flatTodos[i].id) = 0
                  /\ \A id \in InputIds : flatTodos[i].id \notin Range(todoMap[id].subtasks)
            /\ IsChildOfRoot(flatTodos[i]) =>
                  /\ flatTodos[i].id \in ForestNodes
                  /\ Occurrences(flatTodos[i].id) = 1

\* a root, a child of it and an orphan, organized
C6_Witness ==
    /\ orgPc = "done"
    /\ \E i, j, k \in DOMAIN flatTodos :
          /\ IsOrphan(flatTodos[i])
          /\ IsChildOfRoot(flatTodos[j])
          /\ flatTodos[k].parent_id = NullId
          /\ rootTodos = <<flatTodos[k].id>>
          /\ todoMap[flatTodos[k].id].subtasks = <<flatTodos[j].id>>

\* every todo in a root's subtasks list has an empty subtasks list
OneLevelDeep ==
    \A r \in Range(rootTodos) : \A c \in Range(todoMap[r].subtasks) :
        todoMap[c].subtasks = <<>>

\* some todo's parent is itself the child of a root
HasGrandchild ==
    \E i, j \in DOMAIN flatTodos :
        /\ flatTodos[i].parent_id = flatTodos[j].id
        /\ IsChildOfRoot(flatTodos[j])

\* C7 as stated: for every input list the children are attached only one level deep.
C7_AlwaysOneLevelDeep == orgPc = "done" => OneLevelDeep

\* C7, amended: the forest is one level deep exactly for the lists in which no todo's
\* parent is the child of a root (self-parents and cycles included); a todo whose parent
\* is the child of a root hangs two levels deep, in that child's subtasks list.
C7_OneLevelDeepUnlessNested ==
    orgPc = "done" =>
        /\ OneLevelDeep <=> ~HasGrandchild
        /\ \A i, j \in DOMAIN flatTodos :
              (flatTodos[i].parent_id = flatTodos[j].id /\ IsChildOfRoot(flatTodos[j])) =>
                  /\ flatTodos[j].parent_id \in Range(rootTodos)
                  /\ flatTodos[j].id \in Range(todoMap[flatTodos[j].parent_id].subtasks)
                  /\ flatTodos[i].id \in Range(todoMap[flatTodos[j].id].subtasks)

\* a root with a child, next to a todo that names itself as parent
C7_Witness ==
    /\ orgPc = "done"
    /\ \E i, j, k \in DOMAIN flatTodos :
          /\ flatTodos[i].parent_id = flatTodos[i].id
          /\ flatTodos[k].parent_id = NullId
          /\ flatTodos[j].parent_id = flatTodos[k].id
          /\ todoMap[flatTodos[k].id].subtasks = <<flatTodos[j].id>>
          /\ todoMap[flatTodos[i].id].subtasks = <<flatTodos[i].id>>
          /\ OneLevelDeep
(***************************************************************************)
(* The items, for the claim about the effective done state.                *)
(***************************************************************************)
\* C8: an item with at least one child is effectively done iff every child is done,
\* whatever its own flag; an item without children (list empty or absent) is effectively
\* done iff its own flag is set.
C8_EffectiveDone ==
    itemPc \in {"rendered", "toggled", "settled"} =>
        IF item.listed /\ item.children # <<>>
        THEN itemView.effectiveDone <=> \A i \in DOMAIN item.children : item.children[i]
        ELSE itemView.effectiveDone <=> item.done

\* a goal with an empty child list and no flag of its own, rendered as not done
C8_Witness ==
    /\ itemPc = "rendered"
    /\ item.kind = "goal"
    /\ item.listed /\ item.children = <<>>
    /\ ~item.done
    /\ ~itemView.effectiveDone

(***************************************************************************)
(* The todos page, for the claims about the done flag of a parent.          *)
(***************************************************************************)
\* the positions of a flat list that hold the todo `id`
PositionsOf(list, id) == {i \in DOMAIN list : list[i].id = id}

\* the positions of a flat list that hold a child of the todo `id`
ChildrenIn(list, id) == {i \in DOMAIN list : list[i].parent_id = id}

\* the todos of a flat list that have at least one child in it
ParentsWithChildren(list) ==
    {list[i].id : i \in {j \in DOMAIN list : ChildrenIn(list, list[j].id) # {}}}

\* C9: toggling a todo that has at least one child is a no-op: no update is sent for a
\* todo that has children on the page, and the stored done flag of a todo, in the
\* table and in the page's flat list, only changes in a step that starts with the todo
\* having no children.
C9_ParentFlagChangesOnlyWithoutChildren ==
    [][/\ \A r \in requests' \ requests :
             r.kind = "toggle" => ChildrenIn(allTodos, r.id) = {}
       /\ \A id \in DOMAIN store \cap DOMAIN store' :
             store'[id].done # store[id].done
                => {c \in DOMAIN store : store[c].parent_id = id} = {}
       /\ \A i \in DOMAIN allTodos, j \in DOMAIN allTodos' :
             (allTodos'[j].id = allTodos[i].id /\ allTodos'[j].done # allTodos[i].done)
                => ChildrenIn(allTodos, allTodos[i].id) = {}]_vars

\* the flat list with the stored done flag of the todo `id` flipped
FlipDone(list, id) ==
    [i \in DOMAIN list |->
        IF list[i].id = id THEN [list[i] EXCEPT !.done = ~list[i].done] ELSE list[i]]

\* a todo counts as done: by its children when it has some, by its flag otherwise
CountsAsDone(list, i) ==
    IF ChildrenIn(list, list[i].id) # {}
    THEN \A c \in ChildrenIn(list, list[i].id) : list[c].done
    ELSE list[i].done

\* C10: once the list is loaded, the tally, the "all tasks completed" message and the
\* all-done value given to updateStreak are the same with the stored done flag of any
\* parent with children flipped, and count a parent with children as done exactly when
\* all its children are done.
C10_TallyIgnoresParentFlag ==
    ~loading =>
        /\ \A id \in ParentsWithChildren(allTodos) :
              /\ completedCount(FlipDone(allTodos, id)) = completedCount(allTodos)
              /\ allCompleted(FlipDone(allTodos, id), loading)
                    = allCompleted(allTodos, loading)
              /\ allDone(FlipDone(allTodos, id)) = allDone(allTodos)
        /\ completedCount(allTodos)
              = Cardinality({i \in DOMAIN allTodos : CountsAsDone(allTodos, i)})
        /\ allDone(allTodos) = \A i \in DOMAIN allTodos : CountsAsDone(allTodos, i)

(***************************************************************************)
(* The daily page and the completions table, for the claims about toggling. *)
(***************************************************************************)
\* the subtasks the page can show
ShownSubtaskIds == {subtaskItems[i].id : i \in DOMAIN subtaskItems}

\* C11: for a subtask the page shows as not completed and a date for which the table
\* holds no row of it, toggling on really adds the row, and toggling on and then off
\* leaves the table, the completed flags the page and a fetch show, and the
\* completed and total counts as they were.
C11_ToggleOnOffRoundTrip ==
    \A i \in DOMAIN subtaskItems, d \in SelectableDates :
       LET s == subtaskItems[i].id
           on == toggleSubtaskCompletion(completions, s, d, TRUE)
           off == toggleSubtaskCompletion(on, s, d, FALSE)
           shownOn == WithCompleted(subtaskItems, s, TRUE)
           shownOff == WithCompleted(shownOn, s, FALSE)
       IN (CompletionsOf(completions, s, d) = {} /\ ~subtaskItems[i].completed) =>
             /\ CompletionsOf(on, s, d) # {}
             /\ shownOn[i].completed
             /\ off = completions
             /\ shownOff = subtaskItems
             /\ fetchActiveSubtasksForToday(off, d)
                   = fetchActiveSubtasksForToday(completions, d)
             /\ dailyCompletedCount(shownOff) = dailyCompletedCount(subtaskItems)
             /\ dailyTotalCount(shownOff) = dailyTotalCount(subtaskItems)

\* a subtask was toggled off, the store has deleted its row, a row of it for another
\* date is still there, and the page that issued the call showed it completed
C11_Witness ==
    \E r \in requests :
       /\ r.kind = "toggleCompletion" /\ ~r.done /\ r.status = "ok"
       /\ CompletionsOf(completions, r.id, r.date) = {}
       /\ CompletionsOf(completions, r.id, r.date - 1) # {}
       /\ \E i \in DOMAIN r.data : r.data[i].id = r.id /\ r.data[i].completed
       /\ \E i \in DOMAIN subtaskItems : ~subtaskItems[i].completed

\* C12: the table never holds two rows for one subtask and date, and executing a
\* toggle a second time with the same completed value changes nothing.
C12_OneRecordPerSubtaskAndDate ==
    /\ \A i \in DOMAIN completions :
          Cardinality(CompletionsOf(completions, completions[i].subtask_id,
                                    completions[i].completion_date)) = 1
    /\ \A s \in ShownSubtaskIds, d \in SelectableDates, c \in BOOLEAN :
          LET once == toggleSubtaskCompletion(completions, s, d, c)
          IN toggleSubtaskCompletion(once, s, d, c) = once

\* the store was asked to insert a row it already held, and refused
C12_Witness ==
    \E r \in requests :
       /\ r.kind = "toggleCompletion" /\ r.done /\ r.status = "rejected"
       /\ Cardinality(CompletionsOf(completions, r.id, r.date)) = 1

\* C14: when the insert or delete of a toggle has failed, the handler sets the error
\* message and leaves the shown subtasks and the streak as they were; and after a
\* toggle the page shows the subtask completed only if the table holds its row.
C14_FailedToggleChangesNothing ==
    [][\A r \in requests \ requests' :
          r.kind = "toggleCompletion" =>
             /\ r.status = "error" =>
                   /\ error'
                   /\ subtaskItems' = subtaskItems
                   /\ streak' = streak
                   /\ streakData' = streakData
             /\ \A i \in DOMAIN subtaskItems' :
                   (subtaskItems'[i].id = r.id /\ subtaskItems'[i].completed)
                      => CompletionsOf(completions', r.id, r.date) # {}]_vars

\* the mutations of the todos page
TodoMutations == {"add", "addSubtask", "toggle", "update", "delete"}

\* C13: a step changes allTodos only when it runs the continuation of a remote call
\* that reported success; the continuation of a mutation that reported an error
\* leaves allTodos as it was and sets the error message.
C13_ListChangesOnlyAfterSuccess ==
    [][/\ \A r \in requests \ requests' :
             (r.kind \in TodoMutations /\ r.status = "error") =>
                allTodos' = allTodos /\ error'
       /\ allTodos' # allTodos =>
             \E r \in requests \ requests' : r.status = "ok"]_vars

\* the task form was submitted, the insert failed, and the page shows the message
\* over a list as empty as the table
C13_Witness ==
    /\ error /\ ~loading /\ ~isOperating /\ requests = {}
    /\ nextTemplate > 1
    /\ allTodos = <<>> /\ store = <<>>

\* C15: changing the date leaves every call on its way, and the continuation of a
\* fetch that reported success stores its rows and ends the loading state whichever
\* date is selected by then.
C15_LateFetchOverwrites ==
    [][/\ selectedDate' # selectedDate => requests \subseteq requests'
       /\ \A r \in requests \ requests' :
             (r.kind = "fetch" /\ r.status = "ok") =>
                allTodos' = r.data /\ ~loading']_vars

\* the list is shown, no call is on its way, and its todos are of a date other than
\* the selected one
C15_Witness ==
    /\ ~loading /\ requests = {}
    /\ allTodos # <<>>
    /\ \A i \in DOMAIN allTodos : allTodos[i].task_date # selectedDate

\* C19: a step writes the stored streak only when the list the page holds after it
\* is the list of today's tasks and every one of them is done.
C19_StreakOnlyFromTodaysList ==
    [][streakData' # streakData =>
          /\ allTodos' # <<>>
          /\ \A i \in DOMAIN allTodos' :
                allTodos'[i].task_date = today /\ allTodos'[i].done]_vars

\* lastCompletedDate of what localStorage holds
LastCompleted(stored) == getStreakData(stored).lastCompletedDate

\* updateStreak(false), and updateStreak(true) when lastCompletedDate is today, leave
\* localStorage as it is and return the current streak; updateStreak(true) otherwise
\* records today
UpdateStreakFrame ==
    LET current == getStreakData(streakData).currentStreak
        no == updateStreak(streakData, today, FALSE)
        yes == updateStreak(streakData, today, TRUE)
    IN /\ no.storage = streakData /\ no.result = current
       /\ LastCompleted(streakData) = today =>
             yes.storage = streakData /\ yes.result = current
       /\ LastCompleted(streakData) # today =>
             yes.storage # streakData /\ LastCompleted(yes.storage) = today

\* C20: updateStreak changes what is stored only when isAllCompleted is true and
\* lastCompletedDate is not today; so once today is recorded no step of the day
\* changes the stored data, and no step lowers the streak after a task is unchecked.
C20_StreakRaisedOncePerDay ==
    /\ []UpdateStreakFrame
    /\ [][/\ LastCompleted(streakData) = today => streakData' = streakData
          /\ streakData' # streakData => LastCompleted(streakData') = today
          /\ getStreakData(streakData').currentStreak
                >= getStreakData(streakData).currentStreak]_vars

\* the streak was raised today from the one stored yesterday, and a task of today
\* is shown not done
C20_Witness ==
    /\ streakData = <<[currentStreak |-> 3, lastCompletedDate |-> today]>>
    /\ isToday /\ ~loading
    /\ \E i \in DOMAIN allTodos : allTodos[i].task_date = today /\ ~allTodos[i].done

\* the rows a step adds to the table
AddedRows == {store'[k] : k \in DOMAIN store' \ DOMAIN store}

\* C16: the insert of an add with repeat length N stores N rows, one for each of the
\* days today .. today + N - 1, all with the title, the category, no parent, one
\* template_id no earlier row has, and repeat_start_date = today; and with today
\* selected the continuation of the add puts exactly the row dated today in front of
\* the list.
C16_SeriesOnConsecutiveDays ==
    [][\A r \in requests \ requests' :
          /\ (r.kind = "add" /\ r.status = "sent" /\ store' # store) =>
                /\ Cardinality(AddedRows) = r.count
                /\ {row.task_date : row \in AddedRows} = today..(today + r.count - 1)
                /\ \A row \in AddedRows :
                      /\ row.title = r.data[1].title
                      /\ row.category = r.data[1].category
                      /\ row.parent_id = NullId
                      /\ row.template_id = r.data[1].template_id
                      /\ row.repeat_start_date = today
                /\ r.data[1].template_id # NullId
                /\ \A k \in DOMAIN store : store[k].template_id # r.data[1].template_id
          /\ (r.kind = "add" /\ r.status = "ok" /\ isToday) =>
                /\ Len(allTodos') = Len(allTodos) + 1
                /\ Tail(allTodos') = allTodos
                /\ Head(allTodos') \in Range(r.data)
                /\ Head(allTodos').task_date = today]_vars

\* the rows of the table that carry the template_id of the request
SeriesRows(st, r) == {k \in DOMAIN st : st[k].template_id = r.data[1].template_id}

AllSeries == UNION {Range(seriesGroups[c].series) : c \in DOMAIN seriesGroups}

\* the main todos of the list
MainTodos == {i \in DOMAIN seriesTodos : seriesTodos[i].parent_id = NullId}

\* the main todos of one series identifier
SeriesOf(template) == {i \in MainTodos : seriesTodos[i].template_id = template}

\* the instances that count as done: all subtasks done, or no subtask and the flag set
DoneInstances(template) ==
    {i \in SeriesOf(template) :
        LET subs == {j \in DOMAIN seriesTodos : seriesTodos[j].parent_id = i}
        IN IF subs = {} THEN seriesTodos[i].done
           ELSE \A j \in subs : seriesTodos[j].done}

\* the series of the result are the classes of the main todos by template_id, each
\* with its count of instances and its count of effectively done instances
SeriesArePartition ==
    seriesRuns > 0 =>
       /\ \A i \in MainTodos :
             Cardinality({s \in AllSeries : i \in Range(s.instances)}) = 1
       /\ Cardinality(AllSeries)
             = Cardinality({seriesTodos[i].template_id : i \in MainTodos})
       /\ \A s \in AllSeries :
             /\ Range(s.instances) = SeriesOf(s.template_id)
             /\ Len(s.instances) = Cardinality(Range(s.instances))
             /\ s.total = Cardinality(SeriesOf(s.template_id))
             /\ s.completed = Cardinality(DoneInstances(s.template_id))
             /\ 0 <= s.completed /\ s.completed <= s.total

CurrentStreak(stored) == getStreakData(stored).currentStreak

\* C21: after updateStreak(true) on a day that is not the stored lastCompletedDate,
\* the stored streak is 1 when no date was stored, the stored streak plus 1 when
\* the stored date is the previous day, and 1 when it is two or more days before;
\* lastCompletedDate is the day of the call and the value returned is the streak
\* now stored.
C21_UpdateStreakNewDay ==
    \A i \in DOMAIN streakCall :
       LET c == streakCall[i]
           last == LastCompleted(c.before)
       IN (c.op = "update" /\ c.isAllCompleted /\ last # c.day) =>
             /\ last = NullDate => CurrentStreak(streakData) = 1
             /\ (last # NullDate /\ last = c.day - 1) =>
                   CurrentStreak(streakData) = CurrentStreak(c.before) + 1
             /\ (last # NullDate /\ last <= c.day - 2) => CurrentStreak(streakData) = 1
             /\ LastCompleted(streakData) = c.day
             /\ c.result = CurrentStreak(streakData)

\* a streak of 2 stored three days before, and updateStreak(true) has begun a new one
C21_Witness ==
    \E i \in DOMAIN streakCall :
       /\ streakCall[i].op = "update" /\ streakCall[i].isAllCompleted
       /\ streakCall[i].before =
             <<[currentStreak |-> 2, lastCompletedDate |-> streakCall[i].day - 3]>>
       /\ streakCall[i].result = 1

\* C22: validateStreak returns 0 when no lastCompletedDate is stored; when more
\* than one day has passed since it, it stores currentStreak 0 with the same
\* lastCompletedDate and returns 0; otherwise it returns the stored streak and
\* writes nothing.  The value returned is the currentStreak stored afterwards.
C22_ValidateStreak ==
    \A i \in DOMAIN streakCall :
       LET c == streakCall[i]
           last == LastCompleted(c.before)
       IN c.op = "validate" =>
             /\ last = NullDate => c.result = 0 /\ streakData = c.before
             /\ (last # NullDate /\ c.day - last > 1) =>
                   /\ streakData = <<[currentStreak |-> 0, lastCompletedDate |-> last]>>
                   /\ c.result = 0
             /\ (last # NullDate /\ c.day - last <= 1) =>
                   c.result = CurrentStreak(c.before) /\ streakData = c.before
             /\ c.result = CurrentStreak(streakData)

\* validateStreak has found a streak of 2 whose last day is two days ago
C22_Witness ==
    \E i \in DOMAIN streakCall :
       /\ streakCall[i].op = "validate"
       /\ streakCall[i].before =
             <<[currentStreak |-> 2, lastCompletedDate |-> streakCall[i].day - 2]>>
       /\ streakData # streakCall[i].before

\* C29: whatever calls were made, the stored currentStreak is not negative, it is 0
\* when no lastCompletedDate is stored, lastCompletedDate is not later than today,
\* and the streak is at least 1 when lastCompletedDate is today.
C29_StreakDataInvariant ==
    /\ CurrentStreak(streakData) >= 0
    /\ LastCompleted(streakData) = NullDate => CurrentStreak(streakData) = 0
    /\ LastCompleted(streakData) <= today
    /\ LastCompleted(streakData) = today => CurrentStreak(streakData) >= 1

\* validateStreak called on the day the streak reached 3
C29_Witness ==
    /\ streakData = <<[currentStreak |-> 3, lastCompletedDate |-> today]>>
    /\ \E i \in DOMAIN streakCall : streakCall[i].op = "validate"

\* C25: for an objective whose subtasks all last at least one day, on every elapsed
\* day from 0 up to but not including calculateObjectiveDuration(objective) at least
\* one subtask is active, and from that day on none is.
C25_ActiveUntilDuration ==
    LET e == DaysElapsed(objective.start_date, targetDate)
        duration == calculateObjectiveDuration(objective)
    IN (/\ objPc = "active"
        /\ \A t \in DOMAIN objective.tasks : \A j \in DOMAIN objective.tasks[t].subtasks :
              objective.tasks[t].subtasks[j].duration_days >= 1) =>
          /\ (0 <= e /\ e < duration) => activeSubtasks # <<>>
          /\ e >= duration => activeSubtasks = <<>>

\* the last day of an objective of two tasks, the longer one in two phases: one
\* subtask is active
C25_Witness ==
    /\ objPc = "active"
    /\ Len(objective.tasks) = 2
    /\ \E t \in DOMAIN objective.tasks : Len(PhaseKeys(objective.tasks[t].subtasks)) = 2
    /\ DaysElapsed(objective.start_date, targetDate)
          = calculateObjectiveDuration(objective) - 1
    /\ Len(activeSubtasks) = 1

\* the replies of fetchActiveSubtasksForToday a step hands to the page
ActiveReplies == {r \in requests' \ requests : r.kind = "fetchActive" /\ r.status = "ok"}

\* C24: what fetchActiveSubtasksForToday returns has one item for each subtask that
\* getActiveSubtasks gives for the date, and the completed flag of an item is true
\* exactly when the completions table holds a row of that subtask for the date.
C24_CompletedFlagsMatchStore ==
    [][\A r \in ActiveReplies :
          LET active == getActiveSubtasks(DailyObjective, NoonOf(r.date))
          IN /\ Len(r.data) = Len(active)
             /\ \A i \in DOMAIN active :
                   /\ r.data[i].id = active[i].id
                   /\ r.data[i].completed <=>
                         \E k \in DOMAIN completions :
                            /\ completions[k].subtask_id = active[i].id
                            /\ completions[k].completion_date = r.date]_vars

\* the mutations sent and not yet answered
MutationsInFlight == {r \in requests : r.kind \in TodoMutations /\ r.status = "sent"}

\* C27: at most one mutation of the todos page is in flight at any time, and while
\* isOperating is true no step starts another one, from the subtask input and the
\* title editor of an item as from every other control.
C27_OneMutationAtATime ==
    /\ [](Cardinality(MutationsInFlight) <= 1)
    /\ [][isOperating =>
            \A r \in requests' \ requests :
               r.status = "sent" => r.kind \notin TodoMutations]_vars

\* the ids of the todos in allTodos
ListedIds == {allTodos[i].id : i \in DOMAIN allTodos}

\* C26: whatever the order of add-subtask and delete calls and of their replies,
\* every todo of allTodos that has a parent_id has its parent in allTodos too, and
\* once every call has been answered and handled allTodos holds no subtask that
\* the store removed together with its parent.
C26_NoOrphanListed ==
    /\ \A i \in DOMAIN allTodos :
          allTodos[i].parent_id # NullId => allTodos[i].parent_id \in ListedIds
    /\ requests = {} =>
          \A i \in DOMAIN allTodos :
             allTodos[i].parent_id # NullId => allTodos[i].id \in DOMAIN store

\* the delete calls whose success a step handles
DeletesHandled == {r \in requests \ requests' : r.kind = "delete" /\ r.status = "ok"}

\* the ids of the rows the store holds for a date
StoredIds(st, date) == {k \in DOMAIN st : st[k].task_date = date}

\* C23: when the page handles a successful delete, the todo and the todos listed as
\* its children leave the list and no other todo does, so a child or a childless
\* todo leaves alone; and the todos listed afterwards are the rows the store holds
\* for the selected date.
C23_DeleteMatchesCascade ==
    [][\A r \in DeletesHandled :
          LET gone == {r.id} \cup {allTodos[i].id : i \in {j \in DOMAIN allTodos :
                                                          allTodos[j].parent_id = r.id}}
          IN /\ ListedIds' = ListedIds \ gone
             /\ ListedIds' = StoredIds(store', selectedDate')]_vars

\* the mutations whose handler has not finished: sent, or answered and not yet handled
MutationsPending == {r \in requests : r.kind \in TodoMutations}

\* C28: isOperating is true only while a mutation handler is still to run its
\* finally block: whenever it is true, a remote call of a mutation is pending whose
\* continuation will set it back to false, also after a handler returned early
\* because no user is signed in.
C28_OperatingOnlyWhilePending ==
    isOperating => MutationsPending # {}

====
